---- MODULE Spec2Model ----
(***************************************************************************)
(* Coordination layer of onmt/utils/distributed.py:                        *)
(*   - the task-queue coordinator (TaskQueueManager) with its topology     *)
(*     model (WorldContext / DeviceContext), specification Spec;           *)
(*   - the gradient synchronizer tolerant to missing gradients             *)
(*     (only_ready_reduce_and_rescale_grads), specification SpecSync.      *)
(* Python values are modelled as follows: None / a value as the sequences  *)
(* <<>> / <<v>>; an OrderedDict as the sequence of its items in insertion  *)
(* order; a raised exception as a result record with ok = FALSE.           *)
(***************************************************************************)
EXTENDS Integers, Sequences, FiniteSets, TLC

VARIABLES
    opt,             \* the configuration: task_distribution_strategy, accum_count
    tqm,             \* coordinator objects: "global", and the "local" view
    new_group_func,  \* the group factory object (MockGroup: its group_idx)
    calls,           \* every argument list new_group_func was called with
    nbuilds,         \* create_all_distributed_groups runs so far
    ret,             \* the last coordinator operation and what it returned
    sampled,         \* the corpus ids the view's strategy has returned so far
    params,          \* per device and parameter: requires_grad, has_grad, grad
    params0,         \* the parameters as they were before the gradient sync
    pc,              \* per device: its position in only_ready_reduce_and_rescale_grads
    local,           \* per device: the locals of the synchronizer call
    posted,          \* per device: the payload of its pending all_reduce
    comm,            \* per device: the all_reduce calls it has issued
    feed,            \* the batch producer, its queue and semaphore, and the consumer
    workers,         \* per worker process: its device and its position in consumer
    error_queue,     \* the (rank, trace) pairs on the error channel
    error_handler    \* the ErrorHandler: children_pids, its listener thread, the signal

tqmVars == <<opt, tqm, new_group_func, calls, nbuilds, ret, sampled>>
syncVars == <<params, params0, pc, local, posted, comm>>
procVars == <<feed, workers, error_queue, error_handler>>
vars == <<opt, tqm, new_group_func, calls, nbuilds, ret, sampled, params, params0, pc, local, posted, comm, feed, workers, error_queue, error_handler>>

----------------------------------------------------------------------------
(* Bounds of the model *)

\* how many times create_all_distributed_groups may run in one behaviour
MaxBuilds == 2
\* the most layer stacks a configuration has on a side (len(opt.enc_layers))
MaxStacks == 2
\* the most nodes, and the most GPU ranks listed, in a configuration
MaxNodes == 2
MaxGpuRanks == 3
\* the most corpus ids asked of a strategy in one call, the most ids a
\* round-robin cycle yields in one behaviour, and the last training step
MaxSamples == 2
MaxSampled == 4
MaxStep == 1
\* the most permits the semaphore of the batch queue starts with, and the
\* batches the generator of the producer yields in one behaviour
MaxPermits == 3
MaxBatches == 6
\* the number of devices in the communication group of the synchronized component
NDev == 2
\* the most tensors in a list given to all_reduce_and_rescale_tensors
MaxTensors == 3

----------------------------------------------------------------------------
(* Python helpers *)

None == <<>>
Some(v) == <<v>>
IsNone(o) == Len(o) = 0
Val(o) == o[1]

\* range(n)
Range(n) == 0 .. (n - 1)

RECURSIVE sorted_Descending(_)
\* sorted with the comparison the wrong way round: the descending list
sorted_Descending(S) ==
    IF S = {} THEN <<>>
    ELSE LET m == CHOOSE x \in S : \A y \in S : x >= y
         IN <<m>> \o sorted_Descending(S \ {m})

RECURSIVE sorted(_)
\* sorted(set): the ascending list of a set of integers
sorted(S) ==
    IF S = {} THEN <<>>
    ELSE LET m == CHOOSE x \in S : \A y \in S : x <= y
         IN <<m>> \o sorted(S \ {m})

RECURSIVE Flatten(_)
\* the concatenation of a sequence of sequences
Flatten(seqs) == IF Len(seqs) = 0 THEN <<>> ELSE Head(seqs) \o Flatten(Tail(seqs))

----------------------------------------------------------------------------
(* Topology model: WorldContext and DeviceContext *)

\* the valid world contexts WorldContext.from_opt builds: CPU, one GPU,
\* and three multi-GPU shapes
Worlds == {
    [context |-> "CPU", n_nodes |-> 1, gpus_per_node |-> 0],
    [context |-> "SINGLE_GPU", n_nodes |-> 1, gpus_per_node |-> 1],
    [context |-> "MULTI_GPU", n_nodes |-> 1, gpus_per_node |-> 2],
    [context |-> "MULTI_GPU", n_nodes |-> 2, gpus_per_node |-> 1],
    [context |-> "MULTI_GPU", n_nodes |-> 2, gpus_per_node |-> 2] }

world_size(w) == w.n_nodes * w.gpus_per_node

\* is_distributed taken for is_gpu: a single GPU counts as distributed
is_distributed_AnyGpu(w) == w.context # "CPU"

is_distributed(w) == w.context = "MULTI_GPU"

is_gpu(w) == w.context # "CPU"

\* global_to_local with the two ranks passed in each other's place
WorldContext_global_to_local_Swapped(w, node_rank, local_rank) ==
    [context |-> w.context, n_nodes |-> w.n_nodes, gpus_per_node |-> w.gpus_per_node,
     node_rank |-> local_rank, local_rank |-> node_rank]

\* WorldContext.global_to_local: the DeviceContext of (node_rank, local_rank)
WorldContext_global_to_local(w, node_rank, local_rank) ==
    [context |-> w.context, n_nodes |-> w.n_nodes, gpus_per_node |-> w.gpus_per_node,
     node_rank |-> node_rank, local_rank |-> local_rank]

\* the rank computed with the number of nodes for the devices of a node
DeviceContext_global_rank_ByNodes(dc) == dc.n_nodes * dc.node_rank + dc.local_rank

\* DeviceContext.global_rank
DeviceContext_global_rank(dc) == dc.gpus_per_node * dc.node_rank + dc.local_rank

\* WorldContext.is_master on a world context or a device context: None when
\* reading self.global_rank raises, a WorldContext having no such attribute
is_master(ctx) ==
    IF ~is_distributed(ctx) THEN Some(TRUE)
    ELSE IF "node_rank" \in DOMAIN ctx
         THEN Some(DeviceContext_global_rank(ctx) = 0)
         ELSE None

\* validate without the checks of the ranks against the size of the world
validate_FieldsOnly(dc, w) ==
    /\ dc.context = w.context
    /\ dc.n_nodes = w.n_nodes
    /\ dc.gpus_per_node = w.gpus_per_node

\* DeviceContext.validate: TRUE when no assertion fails
validate(dc, w) ==
    /\ dc.context = w.context
    /\ dc.n_nodes = w.n_nodes
    /\ dc.gpus_per_node = w.gpus_per_node
    /\ 0 <= dc.node_rank /\ dc.node_rank < dc.n_nodes
    /\ (is_gpu(dc) => (0 <= dc.local_rank /\ dc.local_rank < dc.gpus_per_node))

----------------------------------------------------------------------------
(* Task registry *)

\* The corpora of the configuration (opt.data, in its order), after the
\* fixture of the repository's tests, with two encoder layer stacks and
\* adapters on the second one.  has_adapters: 'adapters' in corpus_opt.
Corpora == <<
    [corpus_id |-> "train_a-b", src_lang |-> "a", tgt_lang |-> "b",
     encoder_id |-> <<"x", "full">>, decoder_id |-> <<"y">>,
     weight |-> 2, introduce_at_training_step |-> 0, has_adapters |-> FALSE,
     encoder_adapter_ids |-> <<>>, decoder_adapter_ids |-> <<>>],
    [corpus_id |-> "train_c-d", src_lang |-> "c", tgt_lang |-> "d",
     encoder_id |-> <<"xx", "full">>, decoder_id |-> <<"yy">>,
     weight |-> 1, introduce_at_training_step |-> 0, has_adapters |-> TRUE,
     encoder_adapter_ids |-> << <<1, "adp", "s">> >>, decoder_adapter_ids |-> <<>>],
    [corpus_id |-> "train_a-d", src_lang |-> "a", tgt_lang |-> "d",
     encoder_id |-> <<"x", "full">>, decoder_id |-> <<"yy">>,
     weight |-> 1, introduce_at_training_step |-> 10, has_adapters |-> TRUE,
     encoder_adapter_ids |-> << <<1, "adp", "s">> >>,
     decoder_adapter_ids |-> << <<0, "adp", "t">> >>] >>

\* TaskSpecs(...): a corpus placed on device (node_rank, local_rank)
TaskSpecs(corpus, node_rank, local_rank) ==
    [node_rank |-> node_rank, local_rank |-> local_rank,
     src_lang |-> corpus.src_lang, tgt_lang |-> corpus.tgt_lang,
     encoder_id |-> corpus.encoder_id, decoder_id |-> corpus.decoder_id,
     corpus_id |-> corpus.corpus_id, weight |-> corpus.weight,
     introduce_at_training_step |-> corpus.introduce_at_training_step,
     has_adapters |-> corpus.has_adapters,
     encoder_adapter_ids |-> corpus.encoder_adapter_ids,
     decoder_adapter_ids |-> corpus.decoder_adapter_ids]

\* the placements TaskQueueManager.from_opt can give a task: any device of a
\* distributed world (node_gpu), and (0, 0) otherwise
Placements(w) ==
    IF is_distributed(w)
    THEN Range(w.n_nodes) \X Range(w.gpus_per_node)
    ELSE {<<0, 0>>}

\* the corpora with the indices in S, in the order of the configuration
Chosen(S) == LET In(i) == i \in S IN SelectSeq([i \in 1..Len(Corpora) |-> i], In)

\* the task lists from_opt can build in world w: any corpora of the
\* configuration, in its order, each with a placement
TaskLists(w) ==
    UNION { { [i \in 1..Len(Chosen(S)) |-> TaskSpecs(Corpora[Chosen(S)[i]], pl[i][1], pl[i][2])] :
                pl \in [1..Len(Chosen(S)) -> Placements(w)] } :
            S \in (SUBSET (1..Len(Corpora))) \ {{}} }

\* from_opt: uses_adapters is set when a corpus has an 'adapters' option
uses_adapters_of(tasks) == \E i \in 1..Len(tasks) : tasks[i].has_adapters

----------------------------------------------------------------------------
(* Task distribution strategies, as far as their construction goes *)

StrategyNames == {"weighted_sampling", "roundrobin"}

\* sum(my_weights)
RECURSIVE SumSeq(_)
SumSeq(seq) == IF Len(seq) = 0 THEN 0 ELSE Head(seq) + SumSeq(Tail(seq))

\* the constructor without its last check, that some corpus is ready at the first step
WeightedSamplingTaskDistributionStrategy_NoReadyCheck(my_corpus_ids, my_weights, my_introduce_at_training_step) ==
    IF \/ Len(my_corpus_ids) = 0
       \/ SumSeq(my_weights) <= 0
       \/ \A i \in 1..Len(my_introduce_at_training_step) : my_introduce_at_training_step[i] > 0
    THEN None
    ELSE Some([kind |-> "weighted_sampling", my_corpus_ids |-> my_corpus_ids,
               my_weights |-> my_weights,
               my_introduce_at_training_step |-> my_introduce_at_training_step,
               position |-> 0])

\* WeightedSamplingTaskDistributionStrategy.__init__: None when it raises
WeightedSamplingTaskDistributionStrategy(my_corpus_ids, my_weights, my_introduce_at_training_step) ==
    IF \/ Len(my_corpus_ids) = 0
       \/ SumSeq(my_weights) <= 0
       \/ \A i \in 1..Len(my_introduce_at_training_step) : my_introduce_at_training_step[i] > 0
       \/ \A i \in 1..Len(my_weights) :
             my_weights[i] = 0 \/ my_introduce_at_training_step[i] > 0
    THEN None
    ELSE Some([kind |-> "weighted_sampling", my_corpus_ids |-> my_corpus_ids,
               my_weights |-> my_weights,
               my_introduce_at_training_step |-> my_introduce_at_training_step,
               position |-> 0])

\* RoundRobinTaskDistributionStrategy.__init__: cycle(my_corpus_ids), with the
\* position the cycle has reached
RoundRobinTaskDistributionStrategy(my_corpus_ids) ==
    Some([kind |-> "roundrobin", my_corpus_ids |-> my_corpus_ids,
          my_weights |-> <<>>, my_introduce_at_training_step |-> <<>>,
          position |-> 0])

----------------------------------------------------------------------------
(* Task-queue coordinator: TaskQueueManager *)

Coordinators == {"global", "local"}

\* the six component types, in the order get_distributed_groups lists them
ComponentTypes ==
    <<"encoder", "decoder", "src_emb", "tgt_emb", "encoder_adapters", "decoder_adapters">>

\* TaskQueueManager.__init__: None when DeviceContext.validate fails
TaskQueueManager(tasks, tasks_per_communication_batch, world_context, device_context, components_to_gpus, components_to_groups, task_distribution_strategy, uses_adapters) ==
    IF ~IsNone(device_context) /\ ~validate(Val(device_context), world_context)
    THEN None
    ELSE Some([tasks |-> tasks,
               tasks_per_communication_batch |-> tasks_per_communication_batch,
               task_distribution_strategy |-> task_distribution_strategy,
               world_context |-> world_context,
               device_context |-> device_context,
               uses_adapters |-> uses_adapters,
               components_to_gpus |-> components_to_gpus,
               components_to_groups |-> components_to_groups])

\* the node_rank property: None when it raises (global coordinator)
node_rank(self) ==
    IF IsNone(self.device_context) THEN None ELSE Some(Val(self.device_context).node_rank)

\* the local_rank property: None when it raises (global coordinator)
local_rank(self) ==
    IF IsNone(self.device_context) THEN None ELSE Some(Val(self.device_context).local_rank)

\* the global_rank property: None when reading node_rank raises
global_rank(self) ==
    IF IsNone(node_rank(self)) \/ IsNone(local_rank(self)) THEN None
    ELSE Some(Val(node_rank(self)) * self.world_context.gpus_per_node + Val(local_rank(self)))

\* _tasks_on_device
tasks_on_device(tasks, n, l) ==
    LET Here(task) == <<task.node_rank, task.local_rank>> = <<n, l>>
    IN SelectSeq(tasks, Here)

\* get_tasks that returns all tasks in local mode too
get_tasks_Unscoped(self) == self.tasks

\* get_tasks
get_tasks(self) ==
    IF IsNone(self.device_context) THEN self.tasks
    ELSE tasks_on_device(self.tasks, Val(node_rank(self)), Val(local_rank(self)))

\* get_encoders(layer_stack_index) and get_decoders(layer_stack_index): the
\* ids of the tasks at the layer stack, None when the index is out of range
\* for a task (IndexError)
get_encoders(self, layer_stack_index) ==
    LET tasks == get_tasks(self)
    IN IF \E i \in 1..Len(tasks) : layer_stack_index >= Len(tasks[i].encoder_id)
       THEN None
       ELSE Some([i \in 1..Len(tasks) |-> tasks[i].encoder_id[layer_stack_index + 1]])

get_decoders(self, layer_stack_index) ==
    LET tasks == get_tasks(self)
    IN IF \E i \in 1..Len(tasks) : layer_stack_index >= Len(tasks[i].decoder_id)
       THEN None
       ELSE Some([i \in 1..Len(tasks) |-> tasks[i].decoder_id[layer_stack_index + 1]])

\* _get_strategy over the corpora of every device
get_strategy_AllTasks(self, n, l, strategy_name) ==
    LET mine == self.tasks
        my_corpus_ids == [i \in 1..Len(mine) |-> mine[i].corpus_id]
    IN IF strategy_name = "weighted_sampling"
       THEN WeightedSamplingTaskDistributionStrategy(
                my_corpus_ids,
                [i \in 1..Len(mine) |-> mine[i].weight],
                [i \in 1..Len(mine) |-> mine[i].introduce_at_training_step])
       ELSE RoundRobinTaskDistributionStrategy(my_corpus_ids)

\* _get_strategy: the strategy of the tasks on (n, l); None when it raises
get_strategy(self, n, l, strategy_name) ==
    LET mine == tasks_on_device(self.tasks, n, l)
        my_corpus_ids == [i \in 1..Len(mine) |-> mine[i].corpus_id]
    IN IF strategy_name = "weighted_sampling"
       THEN WeightedSamplingTaskDistributionStrategy(
                my_corpus_ids,
                [i \in 1..Len(mine) |-> mine[i].weight],
                [i \in 1..Len(mine) |-> mine[i].introduce_at_training_step])
       ELSE RoundRobinTaskDistributionStrategy(my_corpus_ids)

\* global_to_local: the view bound to (n, l); None when it raises
global_to_local(self, n, l, strategy_name) ==
    LET task_distribution_strategy == get_strategy(self, n, l, strategy_name)
        device_context == WorldContext_global_to_local(self.world_context, n, l)
    IN IF IsNone(task_distribution_strategy) THEN None
       ELSE TaskQueueManager(self.tasks, self.tasks_per_communication_batch,
                             self.world_context, Some(device_context),
                             self.components_to_gpus, self.components_to_groups,
                             task_distribution_strategy, self.uses_adapters)

----------------------------------------------------------------------------
(* create_all_distributed_groups *)

\* the two range() loops nested the other way round: local rank outermost
DeviceOrder_LocalRankFirst(w) ==
    Flatten([l \in 1..w.gpus_per_node |-> [n \in 1..w.n_nodes |-> <<n - 1, l - 1>>]])

\* the devices in the order of the two nested range() loops
DeviceOrder(w) ==
    Flatten([n \in 1..w.n_nodes |-> [l \in 1..w.gpus_per_node |-> <<n - 1, l - 1>>]])

\* the keys of the embeddings and layer stacks of a task, in the order they
\* are appended to `keys`
StackKeys(task) ==
    << <<"src_emb", task.src_lang>>, <<"tgt_emb", task.tgt_lang>> >>
    \o [i \in 1..Len(task.encoder_id) |-> <<"encoder", i - 1, task.encoder_id[i]>>]
    \o [i \in 1..Len(task.decoder_id) |-> <<"decoder", i - 1, task.decoder_id[i]>>]

\* the keys of the adapters of a task: encoder adapters, then decoder adapters
AdapterKeys(task) ==
    [j \in 1..Len(task.encoder_adapter_ids) |->
        LET a == task.encoder_adapter_ids[j]
        IN <<"encoder_adapters", a[1], task.encoder_id[a[1] + 1], a[2], a[3]>>]
    \o [j \in 1..Len(task.decoder_adapter_ids) |->
        LET a == task.decoder_adapter_ids[j]
        IN <<"decoder_adapters", a[1], task.decoder_id[a[1] + 1], a[2], a[3]>>]

\* every component key a task refers to, in the order of its setdefault calls
TaskKeys(task) == StackKeys(task) \o AdapterKeys(task)

\* whether an OrderedDict (sequence of items) has the key
HasKey(od, key) == \E i \in 1..Len(od) : od[i].key = key

\* od[key]
Lookup(od, key) == od[CHOOSE i \in 1..Len(od) : od[i].key = key].val

\* od[key] = val: a new key goes last, a known key keeps its place
SetItem(od, key, val) ==
    IF HasKey(od, key)
    THEN [i \in 1..Len(od) |-> IF od[i].key = key THEN [key |-> key, val |-> val] ELSE od[i]]
    ELSE Append(od, [key |-> key, val |-> val])

\* components_to_gpus.setdefault(key, set()).add(rank)
SetdefaultAdd(od, key, rank) ==
    IF HasKey(od, key) THEN SetItem(od, key, Lookup(od, key) \cup {rank})
    ELSE SetItem(od, key, {rank})

RECURSIVE AddKeys(_, _, _)
\* the loop over the keys of one task
AddKeys(od, keys, rank) ==
    IF Len(keys) = 0 THEN od
    ELSE AddKeys(SetdefaultAdd(od, Head(keys), rank), Tail(keys), rank)

RECURSIVE AddTasks(_, _, _)
\* the loop over the tasks of one device
AddTasks(od, tasks, rank) ==
    IF Len(tasks) = 0 THEN od
    ELSE AddTasks(AddKeys(od, TaskKeys(Head(tasks)), rank), Tail(tasks), rank)

RECURSIVE AddDevices(_, _, _)
\* the loops over node_rank and local_rank
AddDevices(od, devices, self) ==
    IF Len(devices) = 0 THEN od
    ELSE LET n == Head(devices)[1]
             l == Head(devices)[2]
             rank == n * self.world_context.gpus_per_node + l
         IN AddDevices(AddTasks(od, tasks_on_device(self.tasks, n, l), rank),
                       Tail(devices), self)

\* the component-to-devices map of the task list
BuildComponentsToGpus(self) == AddDevices(<<>>, DeviceOrder(self.world_context), self)

\* MockGroup.__call__: the handle of the group_idx-th group
NewGroup(group_idx, sorted_global_ranks) ==
    [group_idx |-> group_idx, ranks |-> sorted_global_ranks]

\* the test `len(global_ranks) < 1`: a group for a component on one device too
NeedsGroup_OneDevice(global_ranks) == Cardinality(global_ranks) >= 1

\* `len(global_ranks) < 2: continue`: only components on 2 or more devices
NeedsGroup(global_ranks) == Cardinality(global_ranks) >= 2

\* the owner of a group: sorted_global_ranks[0]
MinRank(sorted_global_ranks) == sorted_global_ranks[1]

\* the component types components_to_groups starts with
InitialTypes(uses_adapters) ==
    {"encoder", "decoder", "src_emb", "tgt_emb"}
    \cup (IF uses_adapters THEN {"encoder_adapters", "decoder_adapters"} ELSE {})

\* components_to_groups.setdefault(component_type, OrderedDict())[component_id] = tpl
SetGroup(groups, component_type, component_id, group_tpl) ==
    IF component_type \in DOMAIN groups
    THEN [groups EXCEPT ![component_type] = SetItem(@, component_id, group_tpl)]
    ELSE groups @@ (component_type :> SetItem(<<>>, component_id, group_tpl))

RECURSIVE AddGroups(_, _, _)
\* the loop over components_to_gpus.items(): st holds the groups so far, the
\* factory's group_idx and the arguments of the calls made
AddGroups(st, items, i) ==
    IF i > Len(items) THEN st
    ELSE IF ~NeedsGroup(items[i].val) THEN AddGroups(st, items, i + 1)
    ELSE LET sorted_global_ranks == sorted(items[i].val)
             min_rank == MinRank(sorted_global_ranks)
             group_tpl == <<min_rank, NewGroup(st.group_idx, sorted_global_ranks)>>
             key == items[i].key
         IN AddGroups([groups |-> SetGroup(st.groups, Head(key), Tail(key), group_tpl),
                       group_idx |-> st.group_idx + 1,
                       calls |-> Append(st.calls, sorted_global_ranks)],
                      items, i + 1)

\* create_all_distributed_groups that returns the maps it already has instead
\* of building them again
create_all_distributed_groups_Cached(self, group_idx) ==
    IF ~IsNone(self.components_to_groups)
    THEN [self |-> self, group_idx |-> group_idx, calls |-> <<>>,
          val |-> Val(self.components_to_groups)]
    ELSE IF ~is_distributed(self.world_context)
    THEN [self |-> [self EXCEPT !.components_to_gpus = Some(<<>>),
                                !.components_to_groups = Some(<<>>)],
          group_idx |-> group_idx, calls |-> <<>>, val |-> <<>>]
    ELSE LET gpus == BuildComponentsToGpus(self)
             st == AddGroups([groups |-> [t \in InitialTypes(self.uses_adapters) |-> <<>>],
                              group_idx |-> group_idx, calls |-> <<>>], gpus, 1)
         IN [self |-> [self EXCEPT !.components_to_gpus = Some(gpus),
                                   !.components_to_groups = Some(st.groups)],
             group_idx |-> st.group_idx, calls |-> st.calls, val |-> st.groups]

\* create_all_distributed_groups(new_group_func) on coordinator self with the
\* factory at group_idx: the coordinator afterwards, the factory's group_idx,
\* the calls made, and the value returned
create_all_distributed_groups(self, group_idx) ==
    IF ~is_distributed(self.world_context)
    THEN [self |-> [self EXCEPT !.components_to_gpus = Some(<<>>),
                                !.components_to_groups = Some(<<>>)],
          group_idx |-> group_idx, calls |-> <<>>, val |-> <<>>]
    ELSE LET gpus == BuildComponentsToGpus(self)
             st == AddGroups([groups |-> [t \in InitialTypes(self.uses_adapters) |-> <<>>],
                              group_idx |-> group_idx, calls |-> <<>>], gpus, 1)
         IN [self |-> [self EXCEPT !.components_to_gpus = Some(gpus),
                                   !.components_to_groups = Some(st.groups)],
             group_idx |-> st.group_idx, calls |-> st.calls, val |-> st.groups]

----------------------------------------------------------------------------
(* get_distributed_groups *)

RECURSIVE MyGroups_AllDevices(_, _, _, _, _)
\* the loop without the test `global_rank not in global_ranks`
MyGroups_AllDevices(st, items, i, groups, rank) ==
    IF i > Len(items) \/ ~st.ok THEN st
    ELSE LET component_type == Head(items[i].key)
             component_id == Tail(items[i].key)
         IN IF component_type \notin DOMAIN groups
            THEN [st EXCEPT !.ok = FALSE]
            ELSE IF ~HasKey(groups[component_type], component_id)
                 THEN MyGroups_AllDevices(st, items, i + 1, groups, rank)
            ELSE MyGroups_AllDevices([st EXCEPT !.my[component_type] =
                               SetItem(@, component_id,
                                       Lookup(groups[component_type], component_id))],
                          items, i + 1, groups, rank)

RECURSIVE MyGroups_Prepends(_, _, _, _, _)
\* the loop that puts each group of this device in front of those it has
MyGroups_Prepends(st, items, i, groups, rank) ==
    IF i > Len(items) \/ ~st.ok THEN st
    ELSE LET component_type == Head(items[i].key)
             component_id == Tail(items[i].key)
         IN IF rank \notin items[i].val THEN MyGroups_Prepends(st, items, i + 1, groups, rank)
            ELSE IF component_type \notin DOMAIN groups
                 THEN [st EXCEPT !.ok = FALSE]
            ELSE IF ~HasKey(groups[component_type], component_id)
                 THEN MyGroups_Prepends(st, items, i + 1, groups, rank)
            ELSE MyGroups_Prepends([st EXCEPT !.my[component_type] =
                               << [key |-> component_id,
                                   val |-> Lookup(groups[component_type], component_id)] >> \o @],
                          items, i + 1, groups, rank)

RECURSIVE MyGroups(_, _, _, _, _)
\* the loop over components_to_gpus.items() that keeps the groups of this
\* device; ok turns FALSE where components_to_groups[component_type] raises
MyGroups(st, items, i, groups, rank) ==
    IF i > Len(items) \/ ~st.ok THEN st
    ELSE LET component_type == Head(items[i].key)
             component_id == Tail(items[i].key)
         IN IF rank \notin items[i].val THEN MyGroups(st, items, i + 1, groups, rank)
            ELSE IF component_type \notin DOMAIN groups
                 THEN [st EXCEPT !.ok = FALSE]
            ELSE IF ~HasKey(groups[component_type], component_id)
                 THEN MyGroups(st, items, i + 1, groups, rank)
            ELSE MyGroups([st EXCEPT !.my[component_type] =
                               SetItem(@, component_id,
                                       Lookup(groups[component_type], component_id))],
                          items, i + 1, groups, rank)

\* get_distributed_groups that raises, as get_grouped_components does, when
\* the maps have not been built
get_distributed_groups_NoLazyBuild(self, group_idx) ==
    LET my_distributed_groups ==
            [t \in {ComponentTypes[k] : k \in 1..Len(ComponentTypes)} |-> <<>>]
        rank == global_rank(self)
        st == MyGroups([ok |-> TRUE, my |-> my_distributed_groups],
                       Val(self.components_to_gpus), 1, Val(self.components_to_groups),
                       Val(rank))
    IN IF IsNone(self.components_to_groups) \/ IsNone(rank)
       THEN [self |-> self, group_idx |-> group_idx, calls |-> <<>>,
             ok |-> FALSE, val |-> <<>>]
       ELSE [self |-> self, group_idx |-> group_idx, calls |-> <<>>,
             ok |-> st.ok, val |-> IF st.ok THEN st.my ELSE <<>>]

\* get_distributed_groups that builds the maps anew on every call
get_distributed_groups_Rebuild(self, group_idx) ==
    LET built == create_all_distributed_groups(self, group_idx)
        me == built.self
        my_distributed_groups ==
            [t \in {ComponentTypes[k] : k \in 1..Len(ComponentTypes)} |-> <<>>]
        rank == global_rank(me)
        st == MyGroups([ok |-> TRUE, my |-> my_distributed_groups],
                       Val(me.components_to_gpus), 1, Val(me.components_to_groups),
                       Val(rank))
    IN IF IsNone(rank)
       THEN [self |-> me, group_idx |-> built.group_idx, calls |-> built.calls,
             ok |-> FALSE, val |-> <<>>]
       ELSE [self |-> me, group_idx |-> built.group_idx, calls |-> built.calls,
             ok |-> st.ok, val |-> IF st.ok THEN st.my ELSE <<>>]

\* get_distributed_groups(new_group_func) on coordinator self: the coordinator
\* afterwards, the factory's group_idx, the calls made, whether it returned
\* (ok) and the value returned
get_distributed_groups(self, group_idx) ==
    LET built == IF IsNone(self.components_to_groups)
                 THEN create_all_distributed_groups(self, group_idx)
                 ELSE [self |-> self, group_idx |-> group_idx, calls |-> <<>>, val |-> <<>>]
        me == built.self
        my_distributed_groups ==
            [t \in {ComponentTypes[k] : k \in 1..Len(ComponentTypes)} |-> <<>>]
        rank == global_rank(me)
        st == MyGroups([ok |-> TRUE, my |-> my_distributed_groups],
                       Val(me.components_to_gpus), 1, Val(me.components_to_groups),
                       Val(rank))
    IN IF IsNone(rank)
       THEN [self |-> me, group_idx |-> built.group_idx, calls |-> built.calls,
             ok |-> FALSE, val |-> <<>>]
       ELSE [self |-> me, group_idx |-> built.group_idx, calls |-> built.calls,
             ok |-> st.ok, val |-> IF st.ok THEN st.my ELSE <<>>]

----------------------------------------------------------------------------
(* get_grouped_components *)

\* the keys of the dicts get_grouped_components returns, as Python values: a
\* str, or a tuple of the given elements
PyStr(str) == [tuple |-> FALSE, elems |-> <<str>>]
PyTuple(elems) == [tuple |-> TRUE, elems |-> elems]

\* the assignments `my_grouped_components[type][key] = component` of one
\* task, in their order; a component of the model is named by its path
GroupedAssignments(task) ==
    << [type |-> "src_emb", key |-> PyStr(task.src_lang),
        val |-> <<"encoder", "embeddings", task.src_lang>>],
       [type |-> "tgt_emb", key |-> PyStr(task.tgt_lang),
        val |-> <<"decoder", "embeddings", task.tgt_lang>>] >>
    \o [i \in 1..Len(task.encoder_id) |->
           [type |-> "encoder", key |-> PyTuple(<<i - 1, task.encoder_id[i]>>),
            val |-> <<"encoder", "submodule", i - 1, task.encoder_id[i]>>]]
    \o [i \in 1..Len(task.decoder_id) |->
           [type |-> "decoder", key |-> PyTuple(<<i - 1, task.decoder_id[i]>>),
            val |-> <<"decoder", "submodule", i - 1, task.decoder_id[i]>>]]
    \o [j \in 1..Len(task.encoder_adapter_ids) |->
           LET a == task.encoder_adapter_ids[j]
               encoder_id == task.encoder_id[a[1] + 1]
           IN [type |-> "encoder_adapters", key |-> PyTuple(<<a[1], encoder_id, a[2], a[3]>>),
               val |-> <<"encoder", "adapter", a[1], encoder_id, a[2], a[3]>>]]
    \o [j \in 1..Len(task.decoder_adapter_ids) |->
           LET a == task.decoder_adapter_ids[j]
               decoder_id == task.decoder_id[a[1] + 1]
           IN [type |-> "decoder_adapters", key |-> PyTuple(<<a[1], decoder_id, a[2], a[3]>>),
               val |-> <<"decoder", "adapter", a[1], decoder_id, a[2], a[3]>>]]

RECURSIVE Assign(_, _)
\* the assignments made one after the other on the dict of dicts
Assign(grouped, assignments) ==
    IF Len(assignments) = 0 THEN grouped
    ELSE LET a == Head(assignments)
         IN Assign([grouped EXCEPT ![a.type] = SetItem(@, a.key, a.val)], Tail(assignments))

\* get_grouped_components over the tasks of every device, also on a view
get_grouped_components_AllTasks(self) ==
    IF IsNone(self.components_to_groups) THEN None
    ELSE Some(Assign([k \in {ComponentTypes[i] : i \in 1..Len(ComponentTypes)} |-> <<>>],
                     Flatten([i \in 1..Len(self.tasks) |-> GroupedAssignments(self.tasks[i])])))

\* get_grouped_components(model): None when it raises 'Must call
\* get_distributed_groups first'
get_grouped_components(self) ==
    IF IsNone(self.components_to_groups) THEN None
    ELSE LET tasks == IF ~is_distributed(self.world_context) THEN self.tasks
                      ELSE get_tasks(self)
         IN Some(Assign([k \in {ComponentTypes[i] : i \in 1..Len(ComponentTypes)} |-> <<>>],
                        Flatten([i \in 1..Len(tasks) |-> GroupedAssignments(tasks[i])])))

----------------------------------------------------------------------------
(* The coordinator as a state machine *)

\* the accumulation factors (opt.accum_count) of the configurations
AccumCounts == {2}

\* the coordinators that exist
Exists(c) == ~IsNone(tqm[c])

\* no producer, consumer or worker process runs
ProcIdle ==
    /\ feed = <<>>
    /\ workers = <<>>
    /\ error_queue = <<>>
    /\ error_handler = <<>>

\* the state of the synchronizer while the coordinator is exercised
SyncIdle ==
    /\ params = <<>>
    /\ params0 = <<>>
    /\ pc = <<>>
    /\ local = <<>>
    /\ posted = <<>>
    /\ comm = <<>>

\* TaskQueueManager.from_opt: the global coordinator of a configuration
Init ==
    /\ opt \in [task_distribution_strategy : StrategyNames, accum_count : AccumCounts]
    /\ \E w \in Worlds : \E tasks \in TaskLists(w) :
          tqm = [c \in Coordinators |->
                    IF c = "global"
                    THEN TaskQueueManager(tasks, opt.accum_count, w, None, None, None, None,
                                          uses_adapters_of(tasks))
                    ELSE None]
    /\ new_group_func = [group_idx |-> 0]
    /\ calls = <<>>
    /\ nbuilds = 0
    /\ ret = [op |-> "from_opt", who |-> "global", ok |-> TRUE, val |-> <<>>,
              built |-> FALSE, calls |-> <<>>]
    /\ sampled = <<>>
    /\ SyncIdle
    /\ ProcIdle

\* task_queue_manager.global_to_local(node_rank, local_rank, opt) on the
\* global coordinator; the view replaces the previous one
GlobalToLocal(n, l) ==
    LET view == global_to_local(Val(tqm["global"]), n, l, opt.task_distribution_strategy)
    IN /\ tqm' = IF IsNone(view) THEN tqm ELSE [tqm EXCEPT !["local"] = view]
       /\ ret' = [op |-> "global_to_local", who |-> "global", ok |-> ~IsNone(view),
                  val |-> IF IsNone(view) THEN <<>> ELSE <<n, l>>,
                  built |-> FALSE, calls |-> <<>>]
       /\ sampled' = IF IsNone(view) THEN sampled ELSE <<>>
       /\ UNCHANGED <<opt, new_group_func, calls, nbuilds>>
       /\ UNCHANGED <<syncVars, procVars>>

\* c.create_all_distributed_groups(new_group_func)
CreateAllDistributedGroups(c) ==
    /\ Exists(c)
    /\ nbuilds < MaxBuilds
    /\ LET r == create_all_distributed_groups(Val(tqm[c]), new_group_func.group_idx)
       IN /\ tqm' = [tqm EXCEPT ![c] = Some(r.self)]
          /\ new_group_func' = [group_idx |-> r.group_idx]
          /\ calls' = calls \o r.calls
          /\ ret' = [op |-> "create_all_distributed_groups", who |-> c, ok |-> TRUE,
                     val |-> r.val, built |-> TRUE, calls |-> r.calls]
    /\ nbuilds' = nbuilds + 1
    /\ UNCHANGED <<opt, sampled, syncVars, procVars>>

\* c.get_distributed_groups(new_group_func)
GetDistributedGroups(c) ==
    /\ Exists(c)
    /\ IsNone(Val(tqm[c]).components_to_groups) => nbuilds < MaxBuilds
    /\ LET r == get_distributed_groups(Val(tqm[c]), new_group_func.group_idx)
       IN /\ tqm' = [tqm EXCEPT ![c] = Some(r.self)]
          /\ new_group_func' = [group_idx |-> r.group_idx]
          /\ calls' = calls \o r.calls
          /\ ret' = [op |-> "get_distributed_groups", who |-> c, ok |-> r.ok,
                     val |-> r.val, built |-> IsNone(Val(tqm[c]).components_to_groups),
                     calls |-> r.calls]
    /\ nbuilds' = IF IsNone(Val(tqm[c]).components_to_groups) THEN nbuilds + 1 ELSE nbuilds
    /\ UNCHANGED <<opt, sampled, syncVars, procVars>>

\* reading c.node_rank
ReadNodeRank(c) ==
    /\ Exists(c)
    /\ ret' = [op |-> "node_rank", who |-> c, ok |-> ~IsNone(node_rank(Val(tqm[c]))),
               val |-> node_rank(Val(tqm[c])), built |-> FALSE, calls |-> <<>>]
    /\ UNCHANGED <<opt, tqm, new_group_func, calls, nbuilds, sampled>>
    /\ UNCHANGED <<syncVars, procVars>>

\* reading c.local_rank
ReadLocalRank(c) ==
    /\ Exists(c)
    /\ ret' = [op |-> "local_rank", who |-> c, ok |-> ~IsNone(local_rank(Val(tqm[c]))),
               val |-> local_rank(Val(tqm[c])), built |-> FALSE, calls |-> <<>>]
    /\ UNCHANGED <<opt, tqm, new_group_func, calls, nbuilds, sampled>>
    /\ UNCHANGED <<syncVars, procVars>>

\* reading c.global_rank, and global_rank of the device context of c
ReadGlobalRank(c) ==
    /\ Exists(c)
    /\ LET self == Val(tqm[c])
       IN ret' = [op |-> "global_rank", who |-> c, ok |-> ~IsNone(global_rank(self)),
                  val |-> [coordinator |-> global_rank(self),
                           device_context |->
                               IF IsNone(self.device_context) THEN None
                               ELSE Some(DeviceContext_global_rank(Val(self.device_context)))],
                  built |-> FALSE, calls |-> <<>>]
    /\ UNCHANGED <<opt, tqm, new_group_func, calls, nbuilds, sampled>>
    /\ UNCHANGED <<syncVars, procVars>>

\* c.get_tasks()
GetTasks(c) ==
    /\ Exists(c)
    /\ ret' = [op |-> "get_tasks", who |-> c, ok |-> TRUE,
               val |-> get_tasks(Val(tqm[c])), built |-> FALSE, calls |-> <<>>]
    /\ UNCHANGED <<opt, tqm, new_group_func, calls, nbuilds, sampled>>
    /\ UNCHANGED <<syncVars, procVars>>

\* is_master() on the world context or the device context of coordinator c
IsMaster(c, on) ==
    /\ Exists(c)
    /\ on = "device_context" => ~IsNone(Val(tqm[c]).device_context)
    /\ LET ctx == IF on = "device_context" THEN Val(Val(tqm[c]).device_context)
                  ELSE Val(tqm[c]).world_context
       IN ret' = [op |-> "is_master", who |-> c, ok |-> ~IsNone(is_master(ctx)),
                  val |-> [on |-> on, result |-> is_master(ctx)],
                  built |-> FALSE, calls |-> <<>>]
    /\ UNCHANGED <<opt, tqm, new_group_func, calls, nbuilds, sampled>>
    /\ UNCHANGED <<syncVars, procVars>>

\* c.get_grouped_components(model)
GetGroupedComponents(c) ==
    /\ Exists(c)
    /\ LET r == get_grouped_components(Val(tqm[c]))
       IN ret' = [op |-> "get_grouped_components", who |-> c, ok |-> ~IsNone(r),
                  val |-> r, built |-> FALSE, calls |-> <<>>]
    /\ UNCHANGED <<opt, tqm, new_group_func, calls, nbuilds, sampled>>
    /\ UNCHANGED <<syncVars, procVars>>

\* the ranks global_to_local is called with: the devices of the world, and a
\* node rank and a local rank one past their ranges
RankInputs(w) ==
    (Range(w.n_nodes) \X Range(w.gpus_per_node))
    \cup {<<w.n_nodes, 0>>, <<0, w.gpus_per_node>>}

\* localizing the global coordinator
Localize ==
    \E rk \in RankInputs(Val(tqm["global"]).world_context) : GlobalToLocal(rk[1], rk[2])

\* building the maps and asking for the groups of a device, in any order
Next ==
    \/ Localize
    \/ \E c \in Coordinators : CreateAllDistributedGroups(c)
    \/ \E c \in Coordinators : GetDistributedGroups(c)

Spec == Init /\ [][Next]_vars

\* localizing and reading the ranks of the coordinators, in any order
NextRanks ==
    \/ Localize
    \/ \E c \in Coordinators : ReadNodeRank(c)
    \/ \E c \in Coordinators : ReadLocalRank(c)

SpecRanks == Init /\ [][NextRanks]_vars

\* localizing, building the maps and reading the global rank, in any order
NextGlobalRank ==
    \/ Localize
    \/ \E c \in Coordinators : CreateAllDistributedGroups(c)
    \/ \E c \in Coordinators : ReadGlobalRank(c)

SpecGlobalRank == Init /\ [][NextGlobalRank]_vars

\* localizing and asking the contexts of the coordinators whether they are
\* the master, in any order
NextMaster ==
    \/ Localize
    \/ \E c \in Coordinators : \E on \in {"world_context", "device_context"} : IsMaster(c, on)

SpecMaster == Init /\ [][NextMaster]_vars

\* building the maps on the global coordinator, localizing it, and asking the
\* coordinators for the components of their tasks, in any order
NextComponents ==
    \/ Localize
    \/ CreateAllDistributedGroups("global")
    \/ \E c \in Coordinators : GetGroupedComponents(c)

SpecComponents == Init /\ [][NextComponents]_vars

\* building the maps on the global coordinator, localizing it, and asking the
\* coordinators for their tasks, in any order
NextTasks ==
    \/ Localize
    \/ CreateAllDistributedGroups("global")
    \/ \E c \in Coordinators : GetTasks(c)

SpecTasks == Init /\ [][NextTasks]_vars

----------------------------------------------------------------------------
(* Sampling corpus ids from the strategy of a view *)

\* the weights with every corpus counted, whatever its introduce_at_training_step
eligible_weights_NoCurriculum(strategy, communication_batch_id) == strategy.my_weights

\* the weights with a corpus counted one step before it is introduced
eligible_weights_OneStepEarly(strategy, communication_batch_id) ==
    [i \in 1..Len(strategy.my_corpus_ids) |->
        IF strategy.my_introduce_at_training_step[i] <= communication_batch_id + 1
        THEN strategy.my_weights[i] ELSE 0]

\* WeightedSampling.sample_corpus_ids: the weights, 0 for a corpus that is
\* not introduced yet at communication_batch_id
eligible_weights(strategy, communication_batch_id) ==
    [i \in 1..Len(strategy.my_corpus_ids) |->
        IF strategy.my_introduce_at_training_step[i] <= communication_batch_id
        THEN strategy.my_weights[i] ELSE 0]

\* the weights divided by the number of corpora instead of their sum
probabilities_ByCount(weights, sum_w) ==
    [i \in 1..Len(weights) |-> [num |-> weights[i], den |-> Len(weights)]]

\* p = [weight / sum_w for weight in weights], as fractions
probabilities(weights, sum_w) == [i \in 1..Len(weights) |-> [num |-> weights[i], den |-> sum_w]]

\* np.random.choice(a, size=size, p=p): any size elements of a, with
\* replacement, each of positive probability
choice(a, size, p) ==
    [1..size -> {a[i] : i \in {j \in 1..Len(a) : p[j].num * p[j].den > 0}}]

\* WeightedSampling.sample_corpus_ids: whether it returns (`assert sum_w > 0`),
\* the lists it may return, the strategy afterwards, and the distribution p
\* it gives to np.random.choice
WeightedSampling_sample_corpus_ids(strategy, n_samples, communication_batch_id) ==
    LET weights == eligible_weights(strategy, communication_batch_id)
        sum_w == SumSeq(weights)
        p == probabilities(weights, sum_w)
    IN IF sum_w > 0
       THEN [ok |-> TRUE, strategy |-> strategy,
             ids |-> choice(strategy.my_corpus_ids, n_samples, p), p |-> p]
       ELSE [ok |-> FALSE, strategy |-> strategy, ids |-> {}, p |-> <<>>]

\* sample_corpus_ids on a cycle that every call starts again from its beginning
RoundRobin_sample_corpus_ids_Restart(strategy, n_samples, communication_batch_id) ==
    LET m == Len(strategy.my_corpus_ids)
    IN IF m = 0 THEN [ok |-> TRUE, strategy |-> strategy, ids |-> {<<>>}, p |-> <<>>]
       ELSE [ok |-> TRUE, strategy |-> strategy,
             ids |-> {[k \in 1..n_samples |-> strategy.my_corpus_ids[((k - 1) % m) + 1]]},
             p |-> <<>>]

\* RoundRobin.sample_corpus_ids: list(islice(self.infinite_corpus_ids, n_samples)),
\* the cycle left after the last id taken; the cycle of no ids yields nothing
RoundRobin_sample_corpus_ids(strategy, n_samples, communication_batch_id) ==
    LET m == Len(strategy.my_corpus_ids)
    IN IF m = 0 THEN [ok |-> TRUE, strategy |-> strategy, ids |-> {<<>>}, p |-> <<>>]
       ELSE [ok |-> TRUE,
             strategy |-> [strategy EXCEPT !.position = (@ + n_samples) % m],
             ids |-> {[k \in 1..n_samples |->
                          strategy.my_corpus_ids[((strategy.position + k - 1) % m) + 1]]},
             p |-> <<>>]

\* strategy.sample_corpus_ids(n_samples, communication_batch_id)
sample_corpus_ids(strategy, n_samples, communication_batch_id) ==
    IF strategy.kind = "weighted_sampling"
    THEN WeightedSampling_sample_corpus_ids(strategy, n_samples, communication_batch_id)
    ELSE RoundRobin_sample_corpus_ids(strategy, n_samples, communication_batch_id)

\* the world the strategies are exercised in: one node with two GPUs
SchedWorld == [context |-> "MULTI_GPU", n_nodes |-> 1, gpus_per_node |-> 2]

\* the weights and the steps of introduction the corpora are configured with
Weights == {0, 1}
Starts == {0, 1}

\* the task lists of the configurations: the first corpora of the fixture,
\* each with a weight, a step of introduction and a device
SchedTaskLists ==
    UNION { { [i \in 1..n |->
                  TaskSpecs([Corpora[i] EXCEPT !.weight = c[i][1],
                                               !.introduce_at_training_step = c[i][2]],
                            c[i][3][1], c[i][3][2])] :
                c \in [1..n -> Weights \X Starts \X Placements(SchedWorld)] } :
            n \in 1..Len(Corpora) }

\* the process of device (opt.node_rank, opt.local_rank), with the global
\* coordinator of its configuration
InitSched ==
    /\ opt \in [task_distribution_strategy : StrategyNames, accum_count : AccumCounts,
                node_rank : Range(SchedWorld.n_nodes),
                local_rank : Range(SchedWorld.gpus_per_node)]
    /\ \E tasks \in SchedTaskLists :
          tqm = [c \in Coordinators |->
                    IF c = "global"
                    THEN TaskQueueManager(tasks, opt.accum_count, SchedWorld, None, None, None,
                                          None, uses_adapters_of(tasks))
                    ELSE None]
    /\ new_group_func = [group_idx |-> 0]
    /\ calls = <<>>
    /\ nbuilds = 0
    /\ ret = [op |-> "from_opt", who |-> "global", ok |-> TRUE, val |-> <<>>,
              built |-> FALSE, calls |-> <<>>]
    /\ sampled = <<>>
    /\ SyncIdle
    /\ ProcIdle

\* the view's strategy is asked for n_samples corpus ids at step
\* communication_batch_id (TaskQueueManager.sample_corpus_ids asks for
\* tasks_per_communication_batch of them); sampled follows the cycle of a
\* round-robin strategy, and p is the distribution a weighted strategy drew from
SampleCorpusIds(n_samples, communication_batch_id) ==
    /\ Exists("local")
    /\ LET view == Val(tqm["local"])
           strategy == Val(view.task_distribution_strategy)
           r == sample_corpus_ids(strategy, n_samples, communication_batch_id)
       IN /\ strategy.kind = "roundrobin" => Len(sampled) + n_samples <= MaxSampled
          /\ IF r.ok
             THEN \E ids \in r.ids :
                     /\ ret' = [op |-> "sample_corpus_ids", who |-> "local", ok |-> TRUE,
                                val |-> [n_samples |-> n_samples,
                                         communication_batch_id |-> communication_batch_id,
                                         ids |-> ids, p |-> r.p],
                                built |-> FALSE, calls |-> <<>>]
                     /\ sampled' = IF strategy.kind = "roundrobin"
                                   THEN sampled \o ids ELSE sampled
             ELSE /\ ret' = [op |-> "sample_corpus_ids", who |-> "local", ok |-> FALSE,
                             val |-> [n_samples |-> n_samples,
                                      communication_batch_id |-> communication_batch_id,
                                      ids |-> <<>>, p |-> r.p],
                             built |-> FALSE, calls |-> <<>>]
                  /\ UNCHANGED sampled
          /\ tqm' = [tqm EXCEPT !["local"] =
                        Some([view EXCEPT !.task_distribution_strategy = Some(r.strategy)])]
    /\ UNCHANGED <<opt, new_group_func, calls, nbuilds>>
    /\ UNCHANGED <<syncVars, procVars>>

\* TaskQueueManager.sample_corpus_ids(communication_batch_id) on the view: the
\* strategy is asked for tasks_per_communication_batch ids
SampleCommunicationBatch(communication_batch_id) ==
    /\ Exists("local")
    /\ SampleCorpusIds(Val(tqm["local"]).tasks_per_communication_batch, communication_batch_id)

\* the process of a device as in InitSched, with an accumulation count of
\* one to MaxSamples
InitBatch ==
    /\ opt \in [task_distribution_strategy : StrategyNames, accum_count : 1..MaxSamples,
                node_rank : Range(SchedWorld.n_nodes),
                local_rank : Range(SchedWorld.gpus_per_node)]
    /\ \E tasks \in SchedTaskLists :
          tqm = [c \in Coordinators |->
                    IF c = "global"
                    THEN TaskQueueManager(tasks, opt.accum_count, SchedWorld, None, None, None,
                                          None, uses_adapters_of(tasks))
                    ELSE None]
    /\ new_group_func = [group_idx |-> 0]
    /\ calls = <<>>
    /\ nbuilds = 0
    /\ ret = [op |-> "from_opt", who |-> "global", ok |-> TRUE, val |-> <<>>,
              built |-> FALSE, calls |-> <<>>]
    /\ sampled = <<>>
    /\ SyncIdle
    /\ ProcIdle

\* the process localizes the coordinator to its device and samples the
\* communication batches of the training steps from 0 on
NextBatch ==
    \/ GlobalToLocal(opt.node_rank, opt.local_rank)
    \/ \E communication_batch_id \in 0..MaxStep : SampleCommunicationBatch(communication_batch_id)

SpecBatch == InitBatch /\ [][NextBatch]_vars

\* the sides of a task
Sides == {"src", "tgt"}

\* the dict of fields or of vocabularies the getters are given: an entry for
\* every side and language
MockDict(side, lang) == <<"of", side, lang>>

\* get_fields(side, fields_dict): `raise RuntimeError`, whatever it is given
get_fields(self, side) == None

RECURSIVE VocabsOf(_, _, _, _)
\* get_vocabs, the loop over the tasks: a tuple for a language not seen yet
VocabsOf(tasks, side, seen, result) ==
    IF Len(tasks) = 0 THEN result
    ELSE LET task == Head(tasks)
             lang == IF side = "src" THEN task.src_lang ELSE task.tgt_lang
             component_id == None
         IN VocabsOf(Tail(tasks), side, seen \cup {<<side, lang, component_id>>},
                     IF <<side, lang, component_id>> \notin seen
                     THEN Append(result, <<side, lang, component_id, MockDict(side, lang)>>)
                     ELSE result)

\* get_vocabs(side, vocabs_dict)
get_vocabs(self, side) == Some(VocabsOf(get_tasks(self), side, {}, <<>>))

\* c.get_fields(side, fields_dict)
GetFields(c, side) ==
    /\ Exists(c)
    /\ LET r == get_fields(Val(tqm[c]), side)
       IN ret' = [op |-> "get_fields", who |-> c, ok |-> ~IsNone(r),
                  val |-> [side |-> side, result |-> r], built |-> FALSE, calls |-> <<>>]
    /\ UNCHANGED <<opt, tqm, new_group_func, calls, nbuilds, sampled>>
    /\ UNCHANGED <<syncVars, procVars>>

\* c.get_vocabs(side, vocabs_dict)
GetVocabs(c, side) ==
    /\ Exists(c)
    /\ LET r == get_vocabs(Val(tqm[c]), side)
       IN ret' = [op |-> "get_vocabs", who |-> c, ok |-> ~IsNone(r),
                  val |-> [side |-> side, result |-> r], built |-> FALSE, calls |-> <<>>]
    /\ UNCHANGED <<opt, tqm, new_group_func, calls, nbuilds, sampled>>
    /\ UNCHANGED <<syncVars, procVars>>

\* localizing and asking for the fields and the vocabularies, in any order
NextFields ==
    \/ Localize
    \/ \E c \in Coordinators : \E side \in Sides : GetFields(c, side)
    \/ \E c \in Coordinators : \E side \in Sides : GetVocabs(c, side)

SpecFields == Init /\ [][NextFields]_vars

\* c.get_encoders(layer_stack_index)
GetEncoders(c, layer_stack_index) ==
    /\ Exists(c)
    /\ LET r == get_encoders(Val(tqm[c]), layer_stack_index)
       IN ret' = [op |-> "get_encoders", who |-> c, ok |-> ~IsNone(r), val |-> r,
                  built |-> FALSE, calls |-> <<>>]
    /\ UNCHANGED <<opt, tqm, new_group_func, calls, nbuilds, sampled>>
    /\ UNCHANGED <<syncVars, procVars>>

\* c.get_decoders(layer_stack_index)
GetDecoders(c, layer_stack_index) ==
    /\ Exists(c)
    /\ LET r == get_decoders(Val(tqm[c]), layer_stack_index)
       IN ret' = [op |-> "get_decoders", who |-> c, ok |-> ~IsNone(r), val |-> r,
                  built |-> FALSE, calls |-> <<>>]
    /\ UNCHANGED <<opt, tqm, new_group_func, calls, nbuilds, sampled>>
    /\ UNCHANGED <<syncVars, procVars>>

\* the worlds the reading operations are exercised in: the CPU and two nodes
\* of one GPU
OpsWorlds == {w \in Worlds : w.context = "CPU" \/ (w.n_nodes = 2 /\ w.gpus_per_node = 1)}

\* the global coordinator of a configuration in one of these worlds
InitOps == Init /\ Val(tqm["global"]).world_context \in OpsWorlds

\* the maps are built on the global coordinator, and the operations that read
\* a coordinator are called on the coordinators in any order
NextOps ==
    \/ Localize
    \/ CreateAllDistributedGroups("global")
    \/ \E c \in Coordinators : GetDistributedGroups(c)
    \/ \E c \in Coordinators : GetTasks(c)
    \/ \E c \in Coordinators : GetGroupedComponents(c)
    \/ \E c \in Coordinators : \E layer_stack_index \in Range(MaxStacks) :
          GetEncoders(c, layer_stack_index)
    \/ \E c \in Coordinators : \E layer_stack_index \in Range(MaxStacks) :
          GetDecoders(c, layer_stack_index)
    \/ \E communication_batch_id \in 0..MaxStep : SampleCommunicationBatch(communication_batch_id)

SpecOps == InitOps /\ [][NextOps]_vars

\* the process localizes the coordinator to its device and samples
NextSched ==
    \/ GlobalToLocal(opt.node_rank, opt.local_rank)
    \/ \E n_samples \in 1..MaxSamples : \E communication_batch_id \in (-1)..MaxStep :
          SampleCorpusIds(n_samples, communication_batch_id)

SpecSched == InitSched /\ [][NextSched]_vars

\* the weights the corpora of the sampling configurations are given
DistWeights == {0, 1, 2}

\* the task lists of the sampling configurations: the first one or two
\* corpora of the fixture, each with a weight, a step of introduction and a device
DistTaskLists ==
    UNION { { [i \in 1..n |->
                  TaskSpecs([Corpora[i] EXCEPT !.weight = c[i][1],
                                               !.introduce_at_training_step = c[i][2]],
                            c[i][3][1], c[i][3][2])] :
                c \in [1..n -> DistWeights \X Starts \X Placements(SchedWorld)] } :
            n \in 1..2 }

\* the process of a device that schedules its tasks by weighted sampling
InitDist ==
    /\ opt \in [task_distribution_strategy : {"weighted_sampling"}, accum_count : AccumCounts,
                node_rank : Range(SchedWorld.n_nodes),
                local_rank : Range(SchedWorld.gpus_per_node)]
    /\ \E tasks \in DistTaskLists :
          tqm = [c \in Coordinators |->
                    IF c = "global"
                    THEN TaskQueueManager(tasks, opt.accum_count, SchedWorld, None, None, None,
                                          None, uses_adapters_of(tasks))
                    ELSE None]
    /\ new_group_func = [group_idx |-> 0]
    /\ calls = <<>>
    /\ nbuilds = 0
    /\ ret = [op |-> "from_opt", who |-> "global", ok |-> TRUE, val |-> <<>>,
              built |-> FALSE, calls |-> <<>>]
    /\ sampled = <<>>
    /\ SyncIdle
    /\ ProcIdle

\* the process localizes the coordinator to its device and asks the strategy
\* for corpus ids at the training steps from 0 on, in any order
NextDist ==
    \/ GlobalToLocal(opt.node_rank, opt.local_rank)
    \/ \E n_samples \in 1..MaxSamples : \E communication_batch_id \in 0..MaxStep :
          SampleCorpusIds(n_samples, communication_batch_id)

SpecDist == InitDist /\ [][NextDist]_vars

----------------------------------------------------------------------------
(* WorldContext.from_opt on a configuration *)

\* from_opt choosing CPU for a negative world size only
WorldContext_from_opt_NegativeIsCpu(o) ==
    LET gpus_per_node == Len(o.gpu_ranks)
        size == IF gpus_per_node > 0 THEN o.world_size ELSE 0
        multinode == gpus_per_node # size
        made(context) == Some([context |-> context, n_nodes |-> o.n_nodes,
                               gpus_per_node |-> gpus_per_node])
    IN IF size < 0
       THEN IF o.n_nodes # 1 THEN None ELSE made("CPU")
       ELSE IF size = 1
       THEN IF o.n_nodes # 1 THEN None ELSE made("SINGLE_GPU")
       ELSE IF multinode /\ o.n_nodes = 1 THEN None ELSE made("MULTI_GPU")

\* WorldContext.from_opt(opt): None when it raises
WorldContext_from_opt(o) ==
    LET gpus_per_node == Len(o.gpu_ranks)
        size == IF gpus_per_node > 0 THEN o.world_size ELSE 0
        multinode == gpus_per_node # size
        made(context) == Some([context |-> context, n_nodes |-> o.n_nodes,
                               gpus_per_node |-> gpus_per_node])
    IN IF size <= 0
       THEN IF o.n_nodes # 1 THEN None ELSE made("CPU")
       ELSE IF size = 1
       THEN IF o.n_nodes # 1 THEN None ELSE made("SINGLE_GPU")
       ELSE IF multinode /\ o.n_nodes = 1 THEN None ELSE made("MULTI_GPU")

\* the configurations of the world: up to MaxGpuRanks GPU ranks listed, up to
\* MaxNodes nodes, and a world size from -1 to the most devices there can be
WorldOpts ==
    [gpu_ranks : {[i \in 1..k |-> i - 1] : k \in 0..MaxGpuRanks},
     world_size : (-1)..(MaxNodes * MaxGpuRanks),
     n_nodes : 1..MaxNodes]

\* a configuration of the world, nothing built from it yet
InitWorld ==
    /\ opt \in WorldOpts
    /\ ret = [op |-> "opt", who |-> "global", ok |-> TRUE, val |-> <<>>,
              built |-> FALSE, calls |-> <<>>]
    /\ tqm = [c \in Coordinators |-> None]
    /\ new_group_func = [group_idx |-> 0]
    /\ calls = <<>>
    /\ nbuilds = 0
    /\ sampled = <<>>
    /\ SyncIdle
    /\ ProcIdle

\* world_context = WorldContext.from_opt(opt)
WorldContextFromOpt ==
    /\ ret.op = "opt"
    /\ LET made == WorldContext_from_opt(opt)
       IN ret' = [op |-> "WorldContext.from_opt", who |-> "global", ok |-> ~IsNone(made),
                  val |-> IF IsNone(made) THEN <<>> ELSE Val(made),
                  built |-> FALSE, calls |-> <<>>]
    /\ UNCHANGED <<opt, tqm, new_group_func, calls, nbuilds, sampled>>
    /\ UNCHANGED <<syncVars, procVars>>

NextWorld == WorldContextFromOpt

SpecWorld == InitWorld /\ [][NextWorld]_vars

----------------------------------------------------------------------------
(* TaskQueueManager.from_opt on a configuration *)

\* str.split(':', 1) of a string given as the sequence of its characters
split(str) ==
    IF \E i \in 1..Len(str) : str[i] = ":"
    THEN LET i == CHOOSE i \in 1..Len(str) : str[i] = ":" /\ \A j \in 1..(i - 1) : str[j] # ":"
         IN << SubSeq(str, 1, i - 1), SubSeq(str, i + 1, Len(str)) >>
    ELSE << str >>

\* the decimal digits
Digits == <<"0", "1", "2", "3", "4", "5", "6", "7", "8", "9">>

\* whether int(str) returns: a non-empty string of decimal digits
is_int(str) ==
    /\ Len(str) > 0
    /\ \A i \in 1..Len(str) : \E d \in 1..Len(Digits) : Digits[d] = str[i]

RECURSIVE int(_)
\* int(str) of a string of decimal digits
int(str) ==
    IF Len(str) = 0 THEN 0
    ELSE LET last == str[Len(str)]
         IN 10 * int(SubSeq(str, 1, Len(str) - 1))
            + (CHOOSE d \in 0..9 : Digits[d + 1] = last)

\* tuple(int(y) for y in task['node_gpu'].split(':', 1)), unpacked as
\* (node_rank, local_rank): None when that raises
parse_node_gpu(node_gpu) ==
    IF IsNone(node_gpu) THEN None
    ELSE LET parts == split(Val(node_gpu))
         IN IF Len(parts) = 2 /\ is_int(parts[1]) /\ is_int(parts[2])
            THEN Some(<<int(parts[1]), int(parts[2])>>)
            ELSE None

\* the two loops of yield_each_gpu nested the other way round
default_node_gpu_LocalRankFirst(n_tasks, n_nodes, gpus_per_node) ==
    LET each_gpu == Flatten([l \in 1..gpus_per_node |->
                                [n \in 1..n_nodes |-> <<n - 1, l - 1>>]])
    IN IF Len(each_gpu) = 0 THEN <<>>
       ELSE [i \in 1..n_tasks |-> each_gpu[((i - 1) % Len(each_gpu)) + 1]]

\* _default_node_gpu: list(islice(cycle(yield_each_gpu()), n_tasks))
default_node_gpu(n_tasks, n_nodes, gpus_per_node) ==
    LET each_gpu == Flatten([n \in 1..n_nodes |->
                                [l \in 1..gpus_per_node |-> <<n - 1, l - 1>>]])
    IN IF Len(each_gpu) = 0 THEN <<>>
       ELSE [i \in 1..n_tasks |-> each_gpu[((i - 1) % Len(each_gpu)) + 1]]

\* the check of the sharing groups of one side, without the comparison of
\* their lengths with the number of layer stacks
sharing_groups_ok_AnyLength(sharing_group, n_layers) ==
    IF \E i \in 1..Len(sharing_group) : ~IsNone(sharing_group[i])
    THEN \A i \in 1..Len(sharing_group) : ~IsNone(sharing_group[i])
    ELSE n_layers = 1

\* the check of the sharing groups of one side, accepting any number of
\* layer stacks when no group is given
sharing_groups_ok_NoStackCheck(sharing_group, n_layers) ==
    IF \E i \in 1..Len(sharing_group) : ~IsNone(sharing_group[i])
    THEN \A i \in 1..Len(sharing_group) :
            ~IsNone(sharing_group[i]) /\ Len(Val(sharing_group[i])) = n_layers
    ELSE TRUE

\* the check of the sharing groups of one side: with a group given, every
\* task has one as long as the layer stacks (len(None) raises as well);
\* with none given there is one layer stack
sharing_groups_ok(sharing_group, n_layers) ==
    IF \E i \in 1..Len(sharing_group) : ~IsNone(sharing_group[i])
    THEN \A i \in 1..Len(sharing_group) :
            ~IsNone(sharing_group[i]) /\ Len(Val(sharing_group[i])) = n_layers
    ELSE n_layers = 1

\* TaskQueueManager.from_opt(opt, world_context): None when it raises
from_opt(o, world_context) ==
    LET data == o.data
        n_tasks == Len(data)
        explicit == \E i \in 1..n_tasks : ~IsNone(data[i].node_gpu)
        parsed == [i \in 1..n_tasks |-> parse_node_gpu(data[i].node_gpu)]
        node_gpu ==
            IF is_distributed(world_context)
            THEN IF explicit
                 THEN [i \in 1..n_tasks |-> IF IsNone(parsed[i]) THEN <<>> ELSE Val(parsed[i])]
                 ELSE default_node_gpu(n_tasks, world_context.n_nodes,
                                       world_context.gpus_per_node)
            ELSE [i \in 1..n_tasks |-> <<0, 0>>]
        enc_sharing_group == [i \in 1..n_tasks |-> data[i].enc_sharing_group]
        dec_sharing_group == [i \in 1..n_tasks |-> data[i].dec_sharing_group]
        zipped == IF Len(node_gpu) < n_tasks THEN Len(node_gpu) ELSE n_tasks
        tasks == [i \in 1..zipped |->
                     TaskSpecs([data[i].corpus EXCEPT
                                   !.encoder_id = IF IsNone(data[i].enc_sharing_group)
                                                  THEN <<data[i].corpus.src_lang>>
                                                  ELSE Val(data[i].enc_sharing_group),
                                   !.decoder_id = IF IsNone(data[i].dec_sharing_group)
                                                  THEN <<data[i].corpus.tgt_lang>>
                                                  ELSE Val(data[i].dec_sharing_group)],
                               node_gpu[i][1], node_gpu[i][2])]
    IN IF \/ (is_distributed(world_context) /\ explicit
                 /\ \E i \in 1..n_tasks : IsNone(parsed[i]))
          \/ ~sharing_groups_ok(enc_sharing_group, o.enc_layers)
          \/ ~sharing_groups_ok(dec_sharing_group, o.dec_layers)
       THEN None
       ELSE TaskQueueManager(tasks, o.accum_count, world_context, None, None, None, None,
                             uses_adapters_of(tasks))

\* a sharing group for k layer stacks: a language-specific stack, then
\* stacks shared by all
SharingGroup(first, k) == [j \in 1..k |-> IF j = 1 THEN first ELSE "full"]

\* what a corpus may give as its sharing group on one side: nothing, or a
\* group for any number of layer stacks
SharingGroups(first) == {None} \cup {Some(SharingGroup(first, k)) : k \in 1..MaxStacks}

\* what the corpora may give as node_gpu: nothing, every corpus a device, or
\* only the first one
NodeGpus(n_tasks) ==
    { [i \in 1..n_tasks |-> None],
      [i \in 1..n_tasks |-> Some(<<"0", ":", "0">>)],
      [i \in 1..n_tasks |-> IF i = 1 THEN Some(<<"0", ":", "1">>) ELSE None] }

\* the configurations from_opt is exercised on: the first corpora of the
\* fixture, each with its own encoder sharing group, one shape of decoder
\* sharing group for all, and one to MaxStacks layer stacks on either side
Opts ==
    UNION { { [task_distribution_strategy |-> "roundrobin", accum_count |-> 2,
               enc_layers |-> el, dec_layers |-> dl,
               data |-> [i \in 1..n |->
                           [corpus |-> Corpora[i], node_gpu |-> ng[i],
                            enc_sharing_group |-> esg[i],
                            dec_sharing_group |->
                                IF dk = 0 THEN None
                                ELSE Some(SharingGroup(Corpora[i].decoder_id[1], dk))]]] :
                el \in 1..MaxStacks, dl \in 1..MaxStacks, dk \in 0..MaxStacks,
                ng \in NodeGpus(n),
                esg \in [1..n -> SharingGroups("x")] } :
            n \in 1..Len(Corpora) }

\* a configuration and the world context WorldContext.from_opt built from it
InitFromOpt ==
    /\ opt \in Opts
    /\ \E w \in Worlds :
          ret = [op |-> "WorldContext.from_opt", who |-> "global", ok |-> TRUE, val |-> w,
                 built |-> FALSE, calls |-> <<>>]
    /\ tqm = [c \in Coordinators |-> None]
    /\ new_group_func = [group_idx |-> 0]
    /\ calls = <<>>
    /\ nbuilds = 0
    /\ sampled = <<>>
    /\ SyncIdle
    /\ ProcIdle

\* task_queue_manager = TaskQueueManager.from_opt(opt, world_context)
FromOpt ==
    /\ ret.op = "WorldContext.from_opt"
    /\ ret.ok
    /\ LET made == from_opt(opt, ret.val)
       IN /\ tqm' = [tqm EXCEPT !["global"] = made]
          /\ ret' = [op |-> "from_opt", who |-> "global", ok |-> ~IsNone(made),
                     val |-> ret.val, built |-> FALSE, calls |-> <<>>]
    /\ UNCHANGED <<opt, new_group_func, calls, nbuilds, sampled>>
    /\ UNCHANGED <<syncVars, procVars>>

NextFromOpt == FromOpt

SpecFromOpt == InitFromOpt /\ [][NextFromOpt]_vars

\* task.encoder_id[layer_stack_index] and task.decoder_id[layer_stack_index]
\* exist for every adapter of the task
AdaptersIndexable(task) ==
    /\ \A j \in 1..Len(task.encoder_adapter_ids) :
          task.encoder_adapter_ids[j][1] < Len(task.encoder_id)
    /\ \A j \in 1..Len(task.decoder_adapter_ids) :
          task.decoder_adapter_ids[j][1] < Len(task.decoder_id)

\* create_all_distributed_groups runs to its end on the coordinator: the
\* world is not distributed, or the adapters of every task it visits can be
\* indexed
BuildCompletes(self) ==
    is_distributed(self.world_context) =>
        \A n \in 0..(self.world_context.n_nodes - 1) :
            \A l \in 0..(self.world_context.gpus_per_node - 1) :
                LET tasks == tasks_on_device(self.tasks, n, l)
                IN \A i \in 1..Len(tasks) : AdaptersIndexable(tasks[i])

\* create_all_distributed_groups on the coordinator from_opt made; an
\* IndexError of an adapter naming a layer stack the task has not got ends
\* the run, and the coordinator is not used again
BuildOnRegistry ==
    /\ Exists("global")
    /\ IF BuildCompletes(Val(tqm["global"]))
       THEN CreateAllDistributedGroups("global")
       ELSE /\ nbuilds < MaxBuilds
            /\ tqm' = [tqm EXCEPT !["global"] = None]
            /\ ret' = [op |-> "create_all_distributed_groups", who |-> "global",
                       ok |-> FALSE, val |-> <<>>, built |-> FALSE, calls |-> <<>>]
            /\ nbuilds' = nbuilds + 1
            /\ UNCHANGED <<opt, new_group_func, calls, sampled, syncVars, procVars>>

\* from_opt, then the component maps built on the coordinator it made
NextPlaced ==
    \/ FromOpt
    \/ BuildOnRegistry

SpecPlaced == InitFromOpt /\ [][NextPlaced]_vars

----------------------------------------------------------------------------
(* Tensors and collectives *)

\* the default buffer_size of all_reduce_and_rescale_tensors, in bytes
BufferSize == 10485760

\* Tensor.element_size(): the gradients are float32
element_size(t) == 4

\* Tensor.numel(): a tensor is the sequence of its elements
numel(t) == Len(t)

\* torch.zeros_like(p): zeros of the shape of the parameter
zeros(n) == [e \in 1..n |-> 0]

\* t.div_(denom).  Gradients are whole multiples of GradUnit, which every
\* participation count divides, so the quotient is exact
div(t, denom) == [e \in 1..Len(t) |-> t[e] \div denom]

RECURSIVE SumTensors(_)
\* the element-wise sum of a sequence of tensors of one size
SumTensors(ts) ==
    IF Len(ts) = 1 THEN Head(ts)
    ELSE [e \in 1..Len(Head(ts)) |-> Head(ts)[e] + SumTensors(Tail(ts))[e]]

RECURSIVE ChunkPlan_DropsOnFlush(_, _, _, _, _)
\* the plan of a loop that empties the buffer after a flush and forgets the
\* tensor that did not fit
ChunkPlan_DropsOnFlush(sizes, i, buffer, filled, buffer_size) ==
    IF i > Len(sizes)
    THEN IF Len(buffer) > 0 THEN << [direct |-> FALSE, idx |-> buffer] >> ELSE <<>>
    ELSE IF sizes[i] > buffer_size
         THEN << [direct |-> TRUE, idx |-> <<i>>] >>
              \o ChunkPlan_DropsOnFlush(sizes, i + 1, buffer, filled, buffer_size)
    ELSE IF filled + sizes[i] > buffer_size
         THEN << [direct |-> FALSE, idx |-> buffer] >>
              \o ChunkPlan_DropsOnFlush(sizes, i + 1, <<>>, 0, buffer_size)
    ELSE ChunkPlan_DropsOnFlush(sizes, i + 1, Append(buffer, i), filled + sizes[i], buffer_size)

RECURSIVE ChunkPlan(_, _, _, _, _)
\* the collectives all_reduce_and_rescale_tensors issues for tensors of the
\* given sizes in bytes, in order: a tensor larger than the buffer is reduced
\* on its own at once, the buffer is flushed when the next tensor would
\* overflow it, and once more at the end if it holds anything.  A chunk is
\* the list of the places (in `tensors`) of the tensors it carries.
ChunkPlan(sizes, i, buffer, filled, buffer_size) ==
    IF i > Len(sizes)
    THEN IF Len(buffer) > 0 THEN << [direct |-> FALSE, idx |-> buffer] >> ELSE <<>>
    ELSE IF sizes[i] > buffer_size
         THEN << [direct |-> TRUE, idx |-> <<i>>] >>
              \o ChunkPlan(sizes, i + 1, buffer, filled, buffer_size)
    ELSE IF filled + sizes[i] > buffer_size
         THEN << [direct |-> FALSE, idx |-> buffer] >>
              \o ChunkPlan(sizes, i + 1, <<i>>, sizes[i], buffer_size)
    ELSE ChunkPlan(sizes, i + 1, Append(buffer, i), filled + sizes[i], buffer_size)

\* all_reduce_buffer, first half: the tensors of a chunk copied into buffer_t
\* one after the other; buffer_t[:offset] is what is all-reduced
Pack(tensors, chunk) == Flatten([k \in 1..Len(chunk.idx) |-> tensors[chunk.idx[k]]])

\* the offset of the k-th tensor of a chunk in buffer_t
Offset(tensors, chunk, k) ==
    Len(Flatten([j \in 1..(k - 1) |-> tensors[chunk.idx[j]]]))

\* all_reduce_buffer, second half: buffer_t.div_(rescale_denom), and each
\* tensor of the chunk copied back from its place in buffer_t; the other
\* tensors are left alone
Unpack(tensors, chunk, buffer_t, rescale_denom) ==
    [i \in 1..Len(tensors) |->
        IF \E k \in 1..Len(chunk.idx) : chunk.idx[k] = i
        THEN LET k == CHOOSE k \in 1..Len(chunk.idx) : chunk.idx[k] = i
                 offset == Offset(tensors, chunk, k)
             IN div(SubSeq(buffer_t, offset + 1, offset + numel(tensors[i])), rescale_denom)
        ELSE tensors[i]]

----------------------------------------------------------------------------
(* only_ready_reduce_and_rescale_grads on the devices of one group *)

\* the devices of the communication group
Devices == 1..NDev

\* the named parameters of the synchronized component, with their numel
NamedParameters == << [name |-> "weight", numel |-> 2], [name |-> "bias", numel |-> 1] >>

ParamIds == 1..Len(NamedParameters)

RECURSIVE Factorial(_)
Factorial(n) == IF n <= 1 THEN 1 ELSE n * Factorial(n - 1)

\* the unit of the gradient values: every count of devices divides it
GradUnit == Factorial(NDev)

\* the gradient that device d computes for parameter p when it trains it
RealGrad(d, p) == [e \in 1..NamedParameters[p].numel |-> GradUnit * (2 * d + e + p)]

\* a gradient left in the buffer of device d from an earlier step
StaleGrad(d, p) == [e \in 1..NamedParameters[p].numel |-> GradUnit * (10 + d + e)]

\* what a gradient buffer may hold when the synchronizer is called: a
\* gradient of this step (has_grad set by the forward hook), nothing (None),
\* or a gradient of an earlier step
CellKinds == {"ready", "none", "stale"}

Cell(requires_grad, kind, d, p) ==
    [requires_grad |-> requires_grad,
     has_grad |-> kind = "ready",
     grad |-> CASE kind = "ready" -> Some(RealGrad(d, p))
                [] kind = "none" -> None
                [] kind = "stale" -> Some(StaleGrad(d, p))]

\* the state of the coordinator while the synchronizer is exercised
TqmIdle ==
    /\ opt = <<>>
    /\ tqm = <<>>
    /\ new_group_func = <<>>
    /\ calls = <<>>
    /\ nbuilds = 0
    /\ ret = <<>>
    /\ sampled = <<>>

NoLocals == [inbox |-> None, grads |-> <<>>, rescale_denoms |-> <<>>, plan |-> <<>>, k |-> 0]

\* the parameters of the component on every device of the group, before the
\* synchronizer runs; a parameter that does not require a gradient has none
InitSync ==
    /\ \E req \in [ParamIds -> BOOLEAN] : \E kind \in [Devices \X ParamIds -> CellKinds] :
          /\ \A d \in Devices : \A p \in ParamIds : ~req[p] => kind[<<d, p>>] = "none"
          /\ params = [d \in Devices |-> [p \in ParamIds |-> Cell(req[p], kind[<<d, p>>], d, p)]]
    /\ params0 = params
    /\ pc = [d \in Devices |-> "start"]
    /\ local = [d \in Devices |-> NoLocals]
    /\ posted = [d \in Devices |-> None]
    /\ comm = [d \in Devices |-> <<>>]
    /\ TqmIdle
    /\ ProcIdle

\* the list restricted to the parameters this device is ready for
RequireGrad_ReadyOnly(ps) ==
    LET Req(p) == ps[p].requires_grad /\ ps[p].has_grad
    IN SelectSeq([p \in 1..Len(NamedParameters) |-> p], Req)

\* require_grad: the places of the parameters with requires_grad, in order
RequireGrad(ps) ==
    LET Req(p) == ps[p].requires_grad
    IN SelectSeq([p \in 1..Len(NamedParameters) |-> p], Req)

\* `hasattr(p, 'has_grad') and p.has_grad`
IsReady(param) == param.has_grad

\* the filter written `denom >= 0`: nothing is omitted
Survives_Always(denom) == denom >= 0

\* the filter `denom > 0` that omits the gradients no device is ready for
Survives(denom) == denom > 0

\* the gradient tensors of the given parameters
GradsOf(ps, ids) == [i \in 1..Len(ids) |-> Val(ps[ids[i]].grad)]

\* the sizes in bytes of tensors
SizesOf(tensors) == [i \in 1..Len(tensors) |-> numel(tensors[i]) * element_size(tensors[i])]

\* the gradients of the parameters `ids` replaced by `tensors`
WithGrads(ps, ids, tensors) ==
    [p \in DOMAIN ps |->
        IF \E i \in 1..Len(ids) : ids[i] = p
        THEN [ps[p] EXCEPT !.grad = Some(tensors[CHOOSE i \in 1..Len(ids) : ids[i] = p])]
        ELSE ps[p]]

\* Device d enters the synchronizer: it lists the parameters that require a
\* gradient (and returns if there is none), notes which are ready, gives the
\* others a zero gradient where they have none, and calls all_reduce on the
\* ready bits
SyncStart(d) ==
    /\ pc[d] = "start"
    /\ LET require_grad == RequireGrad(params[d])
           ready_list == [i \in 1..Len(require_grad) |->
                             IF IsReady(params[d][require_grad[i]]) THEN 1 ELSE 0]
       IN IF Len(require_grad) = 0
          THEN /\ pc' = [pc EXCEPT ![d] = "done"]
               /\ UNCHANGED <<params, posted, comm>>
          ELSE /\ params' = [params EXCEPT ![d] =
                     [p \in DOMAIN @ |->
                         IF @[p].requires_grad /\ ~IsReady(@[p]) /\ IsNone(@[p].grad)
                         THEN [@[p] EXCEPT !.grad = Some(zeros(NamedParameters[p].numel))]
                         ELSE @[p]]]
               /\ posted' = [posted EXCEPT ![d] = Some(ready_list)]
               /\ comm' = [comm EXCEPT ![d] =
                              Append(@, [what |-> "ready", numel |-> Len(ready_list)])]
               /\ pc' = [pc EXCEPT ![d] = "ready_reduce"]
    /\ UNCHANGED <<params0, local>>
    /\ UNCHANGED <<tqmVars, procVars>>

\* torch.distributed.all_reduce(t, group=group): once every device of the
\* group has called it, each gets the element-wise sum in place of its tensor
AllReduce ==
    /\ \A d \in Devices : ~IsNone(posted[d])
    /\ \A d, e \in Devices : Len(Val(posted[d])) = Len(Val(posted[e]))
    /\ LET total == SumTensors([d \in 1..NDev |-> Val(posted[d])])
       IN local' = [d \in Devices |-> [local[d] EXCEPT !.inbox = Some(total)]]
    /\ posted' = [d \in Devices |-> None]
    /\ UNCHANGED <<params, params0, pc, comm>>
    /\ UNCHANGED <<tqmVars, procVars>>

\* Device d has the reduced ready bits: it drops the gradients no device is
\* ready for, returns if none is left, and otherwise sets has_grad on every
\* parameter and enters all_reduce_and_rescale_tensors(grads, rescale_denom=1),
\* up to its first all_reduce
SyncAfterReady(d) ==
    /\ pc[d] = "ready_reduce"
    /\ ~IsNone(local[d].inbox)
    /\ LET require_grad == RequireGrad(params[d])
           denoms == Val(local[d].inbox)
           Keep(i) == Survives(denoms[i])
           kept == SelectSeq([i \in 1..Len(require_grad) |-> i], Keep)
           grads == [i \in 1..Len(kept) |-> require_grad[kept[i]]]
           rescale_denoms == [i \in 1..Len(kept) |-> denoms[kept[i]]]
           tensors == GradsOf(params[d], grads)
           plan == ChunkPlan(SizesOf(tensors), 1, <<>>, 0, BufferSize)
       IN IF Len(grads) = 0
          THEN /\ pc' = [pc EXCEPT ![d] = "done"]
               /\ local' = [local EXCEPT ![d] = NoLocals]
               /\ UNCHANGED <<params, posted, comm>>
          ELSE /\ params' = [params EXCEPT ![d] =
                     [p \in DOMAIN @ |->
                         IF @[p].requires_grad THEN [@[p] EXCEPT !.has_grad = TRUE]
                         ELSE @[p]]]
               /\ local' = [local EXCEPT ![d] =
                     [inbox |-> None, grads |-> grads, rescale_denoms |-> rescale_denoms,
                      plan |-> plan, k |-> 1]]
               /\ posted' = [posted EXCEPT ![d] = Some(Pack(tensors, plan[1]))]
               /\ comm' = [comm EXCEPT ![d] =
                     Append(@, [what |-> "grads", numel |-> Len(Pack(tensors, plan[1]))])]
               /\ pc' = [pc EXCEPT ![d] = "grad_reduce"]
    /\ UNCHANGED params0
    /\ UNCHANGED <<tqmVars, procVars>>

\* Device d has a reduced chunk: it rescales it by rescale_denom = 1 and copies
\* it back into the gradients; then it calls all_reduce for the next chunk or,
\* after the last one, divides every gradient by its count of ready devices
SyncAfterChunk(d) ==
    /\ pc[d] = "grad_reduce"
    /\ ~IsNone(local[d].inbox)
    /\ LET me == local[d]
           tensors == Unpack(GradsOf(params[d], me.grads), me.plan[me.k], Val(me.inbox), 1)
           normalized == [i \in 1..Len(tensors) |->
                             IF me.rescale_denoms[i] > 0
                             THEN div(tensors[i], me.rescale_denoms[i])
                             ELSE tensors[i]]
       IN IF me.k < Len(me.plan)
          THEN /\ params' = [params EXCEPT ![d] = WithGrads(@, me.grads, tensors)]
               /\ local' = [local EXCEPT ![d] = [me EXCEPT !.inbox = None, !.k = @ + 1]]
               /\ posted' = [posted EXCEPT ![d] = Some(Pack(tensors, me.plan[me.k + 1]))]
               /\ comm' = [comm EXCEPT ![d] =
                     Append(@, [what |-> "grads",
                                numel |-> Len(Pack(tensors, me.plan[me.k + 1]))])]
               /\ UNCHANGED pc
          ELSE /\ params' = [params EXCEPT ![d] = WithGrads(@, me.grads, normalized)]
               /\ local' = [local EXCEPT ![d] = NoLocals]
               /\ pc' = [pc EXCEPT ![d] = "done"]
               /\ UNCHANGED <<posted, comm>>
    /\ UNCHANGED params0
    /\ UNCHANGED <<tqmVars, procVars>>

NextSync ==
    \/ \E d \in Devices : SyncStart(d)
    \/ AllReduce
    \/ \E d \in Devices : SyncAfterReady(d)
    \/ \E d \in Devices : SyncAfterChunk(d)

SpecSync == InitSync /\ [][NextSync]_vars

----------------------------------------------------------------------------
(* all_reduce_and_rescale_tensors on the devices of one group *)

\* the buffer sizes in bytes the function is called with: smaller than one
\* element, one element, two and three elements, and the default
BufferSizes == {3, 4, 8, 12, BufferSize}

\* the denominators the function is called with
RescaleDenoms == {1, 2}

\* the shapes of the tensor lists: up to MaxTensors tensors of one or two elements
TensorShapes == UNION { [1..n -> 1..2] : n \in 1..MaxTensors }

\* the i-th tensor of device d, of n elements; its sum over the devices is a
\* multiple of every denominator of RescaleDenoms
TensorOf(d, i, n) == [e \in 1..n |-> 2 * (3 * d + 2 * i + e)]

\* every device of the group holds tensors of the same shapes and is about to
\* call all_reduce_and_rescale_tensors(tensors, rescale_denom, buffer_size)
InitChunks ==
    /\ \E shape \in TensorShapes :
          params = [d \in Devices |-> [i \in 1..Len(shape) |-> TensorOf(d, i, shape[i])]]
    /\ params0 = params
    /\ \E buffer_size \in BufferSizes : \E rescale_denom \in RescaleDenoms :
          opt = [buffer_size |-> buffer_size, rescale_denom |-> rescale_denom]
    /\ pc = [d \in Devices |-> "start"]
    /\ local = [d \in Devices |-> NoLocals]
    /\ posted = [d \in Devices |-> None]
    /\ comm = [d \in Devices |-> <<>>]
    /\ tqm = <<>>
    /\ new_group_func = <<>>
    /\ calls = <<>>
    /\ nbuilds = 0
    /\ ret = <<>>
    /\ sampled = <<>>
    /\ ProcIdle

\* the all_reduce call of a chunk, as device d logs it
ChunkCall(tensors, chunk) ==
    [what |-> IF chunk.direct THEN "tensor" ELSE "buffer",
     numel |-> Len(Pack(tensors, chunk)),
     idx |-> chunk.idx]

\* Device d enters all_reduce_and_rescale_tensors with a non-empty list (an
\* empty one fails at tensors[0]): it walks the tensors up to its first
\* all_reduce, of a tensor larger than the buffer or of the
\* buffer that the next tensor would overflow
ReduceStart(d) ==
    /\ pc[d] = "start"
    /\ LET tensors == params[d]
           plan == ChunkPlan(SizesOf(tensors), 1, <<>>, 0, opt.buffer_size)
       IN /\ local' = [local EXCEPT ![d] =
                [inbox |-> None, grads |-> <<>>, rescale_denoms |-> <<>>,
                 plan |-> plan, k |-> 1]]
          /\ posted' = [posted EXCEPT ![d] = Some(Pack(tensors, plan[1]))]
          /\ comm' = [comm EXCEPT ![d] = Append(@, ChunkCall(tensors, plan[1]))]
          /\ pc' = [pc EXCEPT ![d] = "chunk_reduce"]
    /\ UNCHANGED <<params, params0>>
    /\ UNCHANGED <<tqmVars, procVars>>

\* Device d has a reduced chunk: it divides it by rescale_denom and copies it
\* back into the tensors of the chunk, then goes on to its next all_reduce or
\* returns after the last
ReduceAfterChunk(d) ==
    /\ pc[d] = "chunk_reduce"
    /\ ~IsNone(local[d].inbox)
    /\ LET me == local[d]
           tensors == Unpack(params[d], me.plan[me.k], Val(me.inbox), opt.rescale_denom)
       IN /\ params' = [params EXCEPT ![d] = tensors]
          /\ IF me.k < Len(me.plan)
             THEN /\ local' = [local EXCEPT ![d] = [me EXCEPT !.inbox = None, !.k = @ + 1]]
                  /\ posted' = [posted EXCEPT ![d] = Some(Pack(tensors, me.plan[me.k + 1]))]
                  /\ comm' = [comm EXCEPT ![d] = Append(@, ChunkCall(tensors, me.plan[me.k + 1]))]
                  /\ UNCHANGED pc
             ELSE /\ local' = [local EXCEPT ![d] = NoLocals]
                  /\ pc' = [pc EXCEPT ![d] = "done"]
                  /\ UNCHANGED <<posted, comm>>
    /\ UNCHANGED params0
    /\ UNCHANGED <<tqmVars, procVars>>

NextChunks ==
    \/ \E d \in Devices : ReduceStart(d)
    \/ AllReduce
    \/ \E d \in Devices : ReduceAfterChunk(d)

SpecChunks == InitChunks /\ [][NextChunks]_vars

----------------------------------------------------------------------------
(* batch_producer and the consumer of its queue *)

\* the producer takes two permits for a batch
ProducerAcquire_TwoPermits ==
    /\ feed.producer = "acquire"
    /\ feed.batch <= MaxBatches
    /\ feed.semaphore > 1
    /\ feed' = [feed EXCEPT !.semaphore = @ - 2, !.acquired = @ + 1, !.producer = "put"]
    /\ UNCHANGED <<tqmVars, syncVars, workers, error_queue, error_handler>>

\* the producer takes the next batch without a permit
ProducerAcquire_NoPermit ==
    /\ feed.producer = "acquire"
    /\ feed.batch <= MaxBatches
    /\ feed' = [feed EXCEPT !.producer = "put"]
    /\ UNCHANGED <<tqmVars, syncVars, workers, error_queue, error_handler>>

\* batch_producer: the generator yields a batch and semaphore.acquire()
\* returns, which it does once a permit is there
ProducerAcquire ==
    /\ feed.producer = "acquire"
    /\ feed.batch <= MaxBatches
    /\ feed.semaphore > 0
    /\ feed' = [feed EXCEPT !.semaphore = @ - 1, !.acquired = @ + 1, !.producer = "put"]
    /\ UNCHANGED <<tqmVars, syncVars, workers, error_queue, error_handler>>

\* batch_producer: queue.put((batch, metadata, communication_batch_id))
ProducerPut ==
    /\ feed.producer = "put"
    /\ feed' = [feed EXCEPT !.queue = Append(@, feed.batch), !.batch = @ + 1,
                            !.puts = @ + 1, !.producer = "acquire"]
    /\ UNCHANGED <<tqmVars, syncVars, workers, error_queue, error_handler>>

\* the consumer takes the batch at the head of the queue
ConsumerGet ==
    /\ feed.consumer = "get"
    /\ Len(feed.queue) > 0
    /\ feed' = [feed EXCEPT !.queue = Tail(@), !.consumer = "release"]
    /\ UNCHANGED <<tqmVars, syncVars, workers, error_queue, error_handler>>

\* the consumer has consumed its batch and releases a permit
ConsumerRelease ==
    /\ feed.consumer = "release"
    /\ feed' = [feed EXCEPT !.semaphore = @ + 1, !.released = @ + 1, !.consumer = "get"]
    /\ UNCHANGED <<tqmVars, syncVars, workers, error_queue, error_handler>>

\* a producer and a consumer on an empty queue, with a semaphore of some permits
InitFeed ==
    /\ \E permits \in 1..MaxPermits :
          feed = [permits |-> permits, semaphore |-> permits, queue |-> <<>>, batch |-> 1,
                  producer |-> "acquire", consumer |-> "get",
                  acquired |-> 0, puts |-> 0, released |-> 0]
    /\ workers = <<>>
    /\ error_queue = <<>>
    /\ error_handler = <<>>
    /\ TqmIdle
    /\ params = <<>>
    /\ params0 = <<>>
    /\ pc = <<>>
    /\ local = <<>>
    /\ posted = <<>>
    /\ comm = <<>>

NextFeed == ProducerAcquire \/ ProducerPut \/ ConsumerGet \/ ConsumerRelease

SpecFeed == InitFeed /\ [][NextFeed]_vars

\* the producer and the consumer are processes of their own, each scheduled
\* again and again: a step of one that stays possible is taken
FairSpecFeed ==
    /\ SpecFeed
    /\ WF_vars(ProducerAcquire)
    /\ WF_vars(ProducerPut)
    /\ WF_vars(ConsumerGet)
    /\ WF_vars(ConsumerRelease)

----------------------------------------------------------------------------
(* consumer and ErrorHandler: the worker processes of a node and the process
   that started them *)

\* the worker processes of the node: one per GPU rank listed
WorkerIds == 1..Len(opt.gpu_ranks)

\* traceback.format_exc() in worker w
Trace(w) == <<"trace", w>>

\* consumer, `except Exception`: the pair it puts on the error queue, None
\* when opt.gpu_ranks[device_context.node_rank] raises IndexError
error_report(o, device_context, w) ==
    IF device_context.node_rank < Len(o.gpu_ranks)
    THEN Some(<<o.gpu_ranks[device_context.node_rank + 1], Trace(w)>>)
    ELSE None

\* the configurations the workers run in: some GPU ranks listed on each of
\* some nodes, and the node of this process
ProcOpts ==
    UNION { [gpu_ranks : {[i \in 1..k |-> i - 1] : k \in 1..MaxGpuRanks},
             n_nodes : {n}, node_rank : Range(n)] : n \in 1..MaxNodes }

\* the workers are started, the ErrorHandler is constructed: its listener
\* thread waits on the error queue and its signal handler is installed
InitProc ==
    /\ opt \in ProcOpts
    /\ workers = [w \in WorkerIds |->
                     [device_context |-> [node_rank |-> opt.node_rank, local_rank |-> w - 1],
                      pc |-> "running", sigint |-> FALSE, fault |-> FALSE, reported |-> FALSE,
                      report_no |-> 0]]
    /\ error_queue = <<>>
    /\ error_handler = [children_pids |-> <<>>, listener |-> "get", item |-> None,
                        sigusr1 |-> FALSE, raised |-> None]
    /\ feed = <<>>
    /\ tqm = <<>>
    /\ new_group_func = <<>>
    /\ calls = <<>>
    /\ nbuilds = 0
    /\ ret = <<>>
    /\ sampled = <<>>
    /\ params = <<>>
    /\ params0 = <<>>
    /\ pc = <<>>
    /\ local = <<>>
    /\ posted = <<>>
    /\ comm = <<>>

procIdleVars == <<opt, tqm, new_group_func, calls, nbuilds, ret, sampled, syncVars, feed>>

\* ErrorHandler.add_child(pid), for the workers in the order they were started
AddChild ==
    /\ IsNone(error_handler.raised)
    /\ Len(error_handler.children_pids) < Len(opt.gpu_ranks)
    /\ error_handler' = [error_handler EXCEPT
                            !.children_pids = Append(@, Len(error_handler.children_pids) + 1)]
    /\ UNCHANGED <<workers, error_queue, procIdleVars>>

\* consumer: process_fn returns; pc tells how the worker ended
WorkerReturn(w) ==
    /\ workers[w].pc = "running"
    /\ workers' = [workers EXCEPT ![w].pc = "returned"]
    /\ UNCHANGED <<error_queue, error_handler, procIdleVars>>

\* consumer: process_fn raises an Exception; the handler puts the rank and the
\* trace on the error queue, unless it raises itself.  report_no notes the
\* how-manieth report of the workers this one is.
WorkerFault(w) ==
    /\ workers[w].pc = "running"
    /\ LET report == error_report(opt, workers[w].device_context, w)
           earlier == Cardinality({v \in WorkerIds : workers[v].reported})
       IN /\ workers' = [workers EXCEPT ![w].pc = "raised", ![w].fault = TRUE,
                                        ![w].reported = ~IsNone(report),
                                        ![w].report_no =
                                            IF IsNone(report) THEN 0 ELSE earlier + 1]
          /\ error_queue' = IF IsNone(report) THEN error_queue
                            ELSE Append(error_queue, Val(report))
    /\ UNCHANGED <<error_handler, procIdleVars>>

\* consumer: KeyboardInterrupt, "killed by parent, do nothing"
WorkerInterrupted(w) ==
    /\ workers[w].pc = "running"
    /\ workers[w].sigint
    /\ workers' = [workers EXCEPT ![w].pc = "interrupted"]
    /\ UNCHANGED <<error_queue, error_handler, procIdleVars>>

\* error_listener: (rank, original_trace) = self.error_queue.get()
ListenerGet ==
    /\ error_handler.listener = "get"
    /\ Len(error_queue) > 0
    /\ error_handler' = [error_handler EXCEPT !.listener = "put", !.item = Some(Head(error_queue))]
    /\ error_queue' = Tail(error_queue)
    /\ UNCHANGED <<workers, procIdleVars>>

\* error_listener: self.error_queue.put((rank, original_trace))
ListenerPut ==
    /\ error_handler.listener = "put"
    /\ error_queue' = Append(error_queue, Val(error_handler.item))
    /\ error_handler' = [error_handler EXCEPT !.listener = "kill", !.item = None]
    /\ UNCHANGED <<workers, procIdleVars>>

\* error_listener: os.kill(os.getpid(), signal.SIGUSR1)
ListenerKill ==
    /\ error_handler.listener = "kill"
    /\ error_handler' = [error_handler EXCEPT !.listener = "done", !.sigusr1 = TRUE]
    /\ UNCHANGED <<workers, error_queue, procIdleVars>>

\* signal_handler, in the main thread: SIGINT to every child registered, then
\* the trace is taken from the queue and raised
SignalHandler ==
    /\ error_handler.sigusr1
    /\ IsNone(error_handler.raised)
    /\ Len(error_queue) > 0
    /\ workers' = [w \in WorkerIds |->
                      IF \E i \in 1..Len(error_handler.children_pids) :
                            error_handler.children_pids[i] = w
                      THEN [workers[w] EXCEPT !.sigint = TRUE]
                      ELSE workers[w]]
    /\ error_handler' = [error_handler EXCEPT !.sigusr1 = FALSE,
                                              !.raised = Some(Head(error_queue)[2])]
    /\ error_queue' = Tail(error_queue)
    /\ UNCHANGED procIdleVars

NextProc ==
    \/ AddChild
    \/ \E w \in WorkerIds : WorkerReturn(w)
    \/ \E w \in WorkerIds : WorkerFault(w)
    \/ \E w \in WorkerIds : WorkerInterrupted(w)
    \/ ListenerGet
    \/ ListenerPut
    \/ ListenerKill
    \/ SignalHandler

SpecProc == InitProc /\ [][NextProc]_vars

----------------------------------------------------------------------------
(* What the claims speak of, stated from the task list alone *)

\* the global rank of the device a task is placed on
TaskRank(task, w) == task.node_rank * w.gpus_per_node + task.local_rank

\* the component keys a task refers to
RefersTo(task) ==
    {<<"src_emb", task.src_lang>>, <<"tgt_emb", task.tgt_lang>>}
    \cup {<<"encoder", i - 1, task.encoder_id[i]>> : i \in 1..Len(task.encoder_id)}
    \cup {<<"decoder", i - 1, task.decoder_id[i]>> : i \in 1..Len(task.decoder_id)}
    \cup {<<"encoder_adapters", task.encoder_adapter_ids[j][1],
            task.encoder_id[task.encoder_adapter_ids[j][1] + 1],
            task.encoder_adapter_ids[j][2], task.encoder_adapter_ids[j][3]>> :
          j \in 1..Len(task.encoder_adapter_ids)}
    \cup {<<"decoder_adapters", task.decoder_adapter_ids[j][1],
            task.decoder_id[task.decoder_adapter_ids[j][1] + 1],
            task.decoder_adapter_ids[j][2], task.decoder_adapter_ids[j][3]>> :
          j \in 1..Len(task.decoder_adapter_ids)}

\* every component key of a task list
AllKeys(tasks) == UNION {RefersTo(tasks[i]) : i \in 1..Len(tasks)}

\* the devices (global ranks) whose tasks refer to the key
DeviceSet(key, tasks, w) ==
    {TaskRank(tasks[i], w) : i \in {j \in 1..Len(tasks) : key \in RefersTo(tasks[j])}}

\* the keys referred to from two or more devices
SharedKeys(tasks, w) == {key \in AllKeys(tasks) : Cardinality(DeviceSet(key, tasks, w)) >= 2}

\* the smallest rank of a set
Least(D) == CHOOSE x \in D : \A y \in D : x <= y

\* seq lists exactly the ranks of D in ascending order
IsAscendingListOf(seq, D) ==
    /\ Len(seq) = Cardinality(D)
    /\ {seq[i] : i \in 1..Len(seq)} = D
    /\ \A i \in 1..(Len(seq) - 1) : seq[i] < seq[i + 1]

\* the places of the group map that hold the key stripped of its type tag,
\* under the key's type
Entries(groups, key) ==
    IF Head(key) \in DOMAIN groups
    THEN {i \in 1..Len(groups[Head(key)]) : groups[Head(key)][i].key = Tail(key)}
    ELSE {}

\* the (owner, handle) pair stored for the key
Entry(groups, key) == groups[Head(key)][CHOOSE i \in Entries(groups, key) : TRUE].val

\* coordinator c exists and holds component maps
HasMaps(c) == Exists(c) /\ ~IsNone(Val(tqm[c]).components_to_groups)

\* the world and the task list of the run
TheWorld == Val(tqm["global"]).world_context
TheTasks == Val(tqm["global"]).tasks

\* the topology is the multi-GPU one
Distributed == TheWorld.context = "MULTI_GPU"

\* the last operation ran create_all_distributed_groups (directly, or from
\* get_distributed_groups on a coordinator without maps)
JustBuilt == ret.built

----------------------------------------------------------------------------
(* C3 *)

\* C3: on a distributed topology, in the group map of every coordinator that
\* holds component maps, a component key referred to from one device only has
\* no entry, and a key referred to from two or more devices has exactly one
\* entry, owned by the smallest global rank among those devices.
C3_GroupPerSharedKey ==
    \A c \in Coordinators :
        (HasMaps(c) /\ Distributed) =>
            \A key \in AllKeys(TheTasks) :
                LET D == DeviceSet(key, TheTasks, TheWorld)
                    groups == Val(Val(tqm[c]).components_to_groups)
                IN /\ Cardinality(D) = 1 => Entries(groups, key) = {}
                   /\ Cardinality(D) >= 2 =>
                        /\ Cardinality(Entries(groups, key)) = 1
                        /\ Entry(groups, key)[1] = Least(D)

\* a built group map with a key on one device (no entry) and a key on two
\* devices whose owner is not rank 0
C3_Witness ==
    /\ HasMaps("global")
    /\ Distributed
    /\ \E key \in AllKeys(TheTasks) : Cardinality(DeviceSet(key, TheTasks, TheWorld)) = 1
    /\ \E key \in SharedKeys(TheTasks, TheWorld) :
          /\ Entries(Val(Val(tqm["global"]).components_to_groups), key) # {}
          /\ Entry(Val(Val(tqm["global"]).components_to_groups), key)[1] > 0

----------------------------------------------------------------------------
(* C4 *)

\* the place of a key among the references of one task: src_emb, tgt_emb,
\* encoder stacks by index, decoder stacks by index, then the adapters
RefPlace(task, key) ==
    LET E == Len(task.encoder_id)
        D == Len(task.decoder_id)
        EA == task.encoder_adapter_ids
        DA == task.decoder_adapter_ids
    IN CASE Head(key) = "src_emb" -> 0
         [] Head(key) = "tgt_emb" -> 1
         [] Head(key) = "encoder" -> 2 + key[2]
         [] Head(key) = "decoder" -> 2 + E + key[2]
         [] Head(key) = "encoder_adapters" ->
                2 + E + D + Least({j \in 1..Len(EA) : EA[j] = <<key[2], key[4], key[5]>>})
         [] Head(key) = "decoder_adapters" ->
                2 + E + D + Len(EA)
                  + Least({j \in 1..Len(DA) : DA[j] = <<key[2], key[4], key[5]>>})

\* where the traversal (devices by ascending rank, then tasks in registration
\* order, then the references of the task) first meets the key
FirstMet(key, tasks, w) ==
    LET Places == {<<TaskRank(tasks[i], w), i, RefPlace(tasks[i], key)>> :
                     i \in {j \in 1..Len(tasks) : key \in RefersTo(tasks[j])}}
        Before(a, b) ==
            \/ a[1] < b[1]
            \/ a[1] = b[1] /\ a[2] < b[2]
            \/ a[1] = b[1] /\ a[2] = b[2] /\ a[3] <= b[3]
    IN CHOOSE a \in Places : \A b \in Places : Before(a, b)

\* key1 is first met strictly before key2
MetBefore(key1, key2, tasks, w) ==
    LET a == FirstMet(key1, tasks, w)
        b == FirstMet(key2, tasks, w)
    IN \/ a[1] < b[1]
       \/ a[1] = b[1] /\ a[2] < b[2]
       \/ a[1] = b[1] /\ a[2] = b[2] /\ a[3] < b[3]

\* the number of shared keys first met before the key
SharedBefore(key, tasks, w) ==
    Cardinality({k \in SharedKeys(tasks, w) : MetBefore(k, key, tasks, w)})

\* C4: on a distributed topology every run of create_all_distributed_groups,
\* on the global coordinator or on a view bound to any device, calls the group
\* factory with the same sequence of rank lists: one call per shared component
\* key, in the order in which the traversal (devices by ascending rank, tasks
\* in registration order, src_emb, tgt_emb, encoder stacks, decoder stacks,
\* adapters) first meets the keys.
C4_SameCallOrder ==
    (JustBuilt /\ Distributed) =>
        /\ Len(ret.calls) = Cardinality(SharedKeys(TheTasks, TheWorld))
        /\ \A key \in SharedKeys(TheTasks, TheWorld) :
              IsAscendingListOf(ret.calls[SharedBefore(key, TheTasks, TheWorld) + 1],
                                DeviceSet(key, TheTasks, TheWorld))

\* a view bound to a device other than rank 0 has built the maps with calls
\* for two keys of different device sets
C4_Witness ==
    /\ JustBuilt
    /\ ret.who = "local"
    /\ Val(global_rank(Val(tqm["local"]))) > 0
    /\ Len(ret.calls) >= 2
    /\ \E i, j \in 1..Len(ret.calls) : ret.calls[i] # ret.calls[j]

----------------------------------------------------------------------------
(* C5 *)

\* the group_idx of the factory before the last operation
IdxBefore == new_group_func.group_idx - Len(ret.calls)

\* C5: in one run of create_all_distributed_groups on a distributed topology
\* the group factory is called once per component key whose device set has
\* two or more ranks and never for another key: the calls are as many as those
\* keys, each such key stores (smallest rank, handle) under its type and its
\* key stripped of the type tag, the handle is the one returned by a call of
\* this run whose argument is the ascending list of exactly the ranks of the
\* key's device set, and no two keys store the handle of the same call.
C5_OneCallPerSharedKey ==
    (JustBuilt /\ Distributed) =>
        LET groups == Val(Val(tqm[ret.who]).components_to_groups)
            Shared == SharedKeys(TheTasks, TheWorld)
            HandleOf(key) == Entry(groups, key)[2]
            CallOf(key) == HandleOf(key).group_idx - IdxBefore + 1
        IN /\ Len(ret.calls) = Cardinality(Shared)
           /\ \A key \in AllKeys(TheTasks) \ Shared : Entries(groups, key) = {}
           /\ \A t \in DOMAIN groups : \A i \in 1..Len(groups[t]) :
                 <<t>> \o groups[t][i].key \in Shared
           /\ \A key \in Shared :
                 /\ Cardinality(Entries(groups, key)) = 1
                 /\ Entry(groups, key)[1] = Least(DeviceSet(key, TheTasks, TheWorld))
                 /\ CallOf(key) \in 1..Len(ret.calls)
                 /\ HandleOf(key) = NewGroup(IdxBefore + CallOf(key) - 1, ret.calls[CallOf(key)])
                 /\ IsAscendingListOf(ret.calls[CallOf(key)],
                                      DeviceSet(key, TheTasks, TheWorld))
           /\ \A k1, k2 \in Shared : k1 # k2 => CallOf(k1) # CallOf(k2)

\* a run that made three or more calls, two of them with the same rank list
\* (two keys with the same device set), after the factory had been used before
C5_Witness ==
    /\ JustBuilt
    /\ Distributed
    /\ IdxBefore > 0
    /\ Len(ret.calls) >= 3
    /\ \E i, j \in 1..Len(ret.calls) : i # j /\ ret.calls[i] = ret.calls[j]

----------------------------------------------------------------------------
(* C6 *)

\* this step runs create_all_distributed_groups on coordinator c, which held
\* component maps already
Rebuilds(c) ==
    /\ HasMaps(c)
    /\ nbuilds' = nbuilds + 1
    /\ ret'.who = c

\* the keys of a group map with their owners and rank lists (the handles'
\* identity left out)
Shape(groups) ==
    [t \in DOMAIN groups |->
        [i \in 1..Len(groups[t]) |->
            <<groups[t][i].key, groups[t][i].val[1], groups[t][i].val[2].ranks>>]]

\* C6 as stated: a second run of create_all_distributed_groups on the same
\* coordinator, with the same task set and the same group factory, leaves the
\* component-device map and the component-group map (keys, owners, handles)
\* as the first run left them.
C6_SameMapsAndHandles ==
    [][\A c \in Coordinators :
          Rebuilds(c) =>
              /\ Val(tqm'[c]).components_to_gpus = Val(tqm[c]).components_to_gpus
              /\ Val(tqm'[c]).components_to_groups = Val(tqm[c]).components_to_groups]_vars

\* C6, amended: a second run leaves the component-device map as it was and
\* yields a group map with the same keys in the same order, the same owners and
\* the same rank lists; the handles are the ones the factory returns for the
\* calls of the second run, which a factory with state (MockGroup's group_idx)
\* numbers anew.
C6_SameMapsNewHandles ==
    [][\A c \in Coordinators :
          Rebuilds(c) =>
              LET before == Val(Val(tqm[c]).components_to_groups)
                  after == Val(Val(tqm'[c]).components_to_groups)
              IN /\ Val(tqm'[c]).components_to_gpus = Val(tqm[c]).components_to_gpus
                 /\ Shape(after) = Shape(before)
                 /\ \A t \in DOMAIN after : \A i \in 1..Len(after[t]) :
                       /\ after[t][i].val[2].group_idx >= new_group_func.group_idx
                       /\ after[t][i].val[2].group_idx < new_group_func'.group_idx]_vars

\* the global coordinator, the only one there is, has run
\* create_all_distributed_groups twice and holds the groups of the second run
C6_Witness ==
    /\ ret.op = "create_all_distributed_groups"
    /\ ret.who = "global"
    /\ nbuilds = 2
    /\ ~Exists("local")
    /\ Len(ret.calls) >= 1
    /\ IdxBefore = Len(ret.calls)

----------------------------------------------------------------------------
(* C7 *)

\* the six component types, each with no group
NoGroups == [t \in {ComponentTypes[k] : k \in 1..Len(ComponentTypes)} |-> <<>>]

----------------------------------------------------------------------------
(* C8 *)

\* the (component id, (owner, handle)) items of a group map under type t
ItemsOf(groups, t) ==
    IF t \in DOMAIN groups THEN {groups[t][i] : i \in 1..Len(groups[t])} ELSE {}

\* C8: get_distributed_groups on a view bound to global rank r returns, for
\* every component type, exactly the items of the group map whose component's
\* device set contains r, each with the (owner, handle) pair the group map
\* stores, and each once.
C8_LocalGroupsAreMine ==
    (ret.op = "get_distributed_groups" /\ ret.who = "local") =>
        LET me == Val(tqm["local"])
            r == Val(global_rank(me))
            groups == Val(me.components_to_groups)
        IN /\ ret.ok
           /\ DOMAIN ret.val = {ComponentTypes[k] : k \in 1..Len(ComponentTypes)}
           /\ \A t \in DOMAIN ret.val :
                 /\ ItemsOf(ret.val, t) =
                       {item \in ItemsOf(groups, t) :
                           r \in DeviceSet(<<t>> \o item.key, TheTasks, TheWorld)}
                 /\ Cardinality(ItemsOf(ret.val, t)) = Len(ret.val[t])

\* a view returns some groups of the group map and leaves another one out
C8_Witness ==
    /\ ret.op = "get_distributed_groups"
    /\ ret.who = "local"
    /\ ret.ok
    /\ \E t \in DOMAIN ret.val : Len(ret.val[t]) >= 1
    /\ \E t \in DOMAIN ret.val :
          ItemsOf(Val(Val(tqm["local"]).components_to_groups), t) \ ItemsOf(ret.val, t) # {}

----------------------------------------------------------------------------
(* C9 *)

\* C9 as stated: get_distributed_groups on a coordinator whose component maps
\* have not been built fails and returns no group map.
C9_FailsBeforeBuild ==
    (ret.op = "get_distributed_groups" /\ ret.built) => ~ret.ok

\* C9, amended: get_distributed_groups on a view (a localized coordinator)
\* whose component maps have not been built is not an error: it runs
\* create_all_distributed_groups itself, with the group factory it was given,
\* and returns the groups of the device out of the maps it has just built.
C9_BuildsBeforeUse ==
    (ret.op = "get_distributed_groups" /\ ret.who = "local" /\ ret.built) =>
        /\ ret.ok
        /\ HasMaps("local")
        /\ ~IsNone(Val(tqm["local"]).components_to_gpus)
        /\ Distributed =>
              /\ Len(ret.calls) = Cardinality(SharedKeys(TheTasks, TheWorld))
              /\ \A key \in SharedKeys(TheTasks, TheWorld) :
                    Val(global_rank(Val(tqm["local"]))) \in DeviceSet(key, TheTasks, TheWorld)
                        => \E item \in ItemsOf(ret.val, Head(key)) : item.key = Tail(key)

\* a view without maps was asked for its groups, created groups and returned
\* one of them
C9_Witness ==
    /\ ret.op = "get_distributed_groups"
    /\ ret.who = "local"
    /\ ret.built
    /\ ret.ok
    /\ Len(ret.calls) >= 1
    /\ \E t \in DOMAIN ret.val : Len(ret.val[t]) >= 1

----------------------------------------------------------------------------
(* C10 *)

\* C10: reading node_rank and local_rank of the view that global_to_local(n, l)
\* has just returned gives n and l, and reading node_rank or local_rank of the
\* global coordinator raises.
C10_RanksOfView ==
    [][/\ (ret.op = "global_to_local" /\ ret.ok /\ ReadNodeRank("local")) =>
              ret'.ok /\ ret'.val = Some(ret.val[1])
       /\ (ret.op = "global_to_local" /\ ret.ok /\ ReadLocalRank("local")) =>
              ret'.ok /\ ret'.val = Some(ret.val[2])
       /\ (ReadNodeRank("global") \/ ReadLocalRank("global")) =>
              ~ret'.ok /\ ret'.val = None]_vars

\* the local_rank of a view of node 1 has been read and is 1
C10_Witness ==
    /\ ret.op = "local_rank"
    /\ ret.who = "local"
    /\ ret.val = Some(1)
    /\ node_rank(Val(tqm["local"])) = Some(1)

----------------------------------------------------------------------------
(* The tolerant gradient synchronizer *)

\* every device of the group has returned from the synchronizer
AllDone == \A d \in Devices : pc[d] = "done"

\* S: the devices marked ready (has_grad) for parameter p when it was called
ReadySet(p) == {d \in Devices : params0[d][p].has_grad}

RECURSIVE SumOver(_, _, _)
\* the sum over the devices of D of element e of their gradient of p, as it
\* was before the call
SumOver(D, p, e) ==
    IF D = {} THEN 0
    ELSE LET d == CHOOSE x \in D : TRUE
         IN Val(params0[d][p].grad)[e] + SumOver(D \ {d}, p, e)

\* (sum of the gradients of the devices in S) / |S|
MeanOverReady(p) ==
    [e \in 1..NamedParameters[p].numel |->
        SumOver(ReadySet(p), p, e) \div Cardinality(ReadySet(p))]

\* no device of the group is ready for any parameter of the component
NoneReady == \A d \in Devices : \A p \in ParamIds : ~params0[d][p].has_grad

\* the all_reduce calls of device d that carry gradients
GradCalls(d) == {i \in 1..Len(comm[d]) : comm[d][i].what = "grads"}

\* C1: once every device of the group has run the synchronizer, the gradient
\* of a parameter with a non-empty set S of ready devices is, on every device
\* of the group, the sum of the gradients of the devices in S divided by |S|,
\* parameter by parameter and whatever the buffers of the devices outside S held
C1_MeanOverReady ==
    AllDone =>
        \A p \in ParamIds :
            (params0[1][p].requires_grad /\ ReadySet(p) # {}) =>
                \A d \in Devices : params[d][p].grad = Some(MeanOverReady(p))

\* C2 as stated: when no device is ready for any parameter, every gradient
\* buffer and has_grad flag is afterwards what it was before the call, and no
\* gradient all-reduce is issued
C2_Untouched ==
    (AllDone /\ NoneReady) =>
        \A d \in Devices :
            /\ \A p \in ParamIds :
                  /\ params[d][p].grad = params0[d][p].grad
                  /\ params[d][p].has_grad = params0[d][p].has_grad
            /\ GradCalls(d) = {}
            /\ Len(comm[d]) <= 1

\* C2 as amended: when no device is ready for any parameter, every has_grad
\* flag and every gradient buffer that existed is afterwards what it was
\* before the call, a parameter that requires a gradient and had no buffer has
\* a buffer of zeros, and no gradient all-reduce is issued: the readiness
\* all-reduce is the only communication
C2_UntouchedButZeroFilled ==
    (AllDone /\ NoneReady) =>
        \A d \in Devices :
            /\ \A p \in ParamIds :
                  /\ params[d][p].has_grad = params0[d][p].has_grad
                  /\ params[d][p].requires_grad = params0[d][p].requires_grad
                  /\ ~IsNone(params0[d][p].grad) => params[d][p].grad = params0[d][p].grad
                  /\ IsNone(params0[d][p].grad) =>
                        params[d][p].grad =
                            IF params0[d][p].requires_grad
                            THEN Some([e \in 1..NamedParameters[p].numel |-> 0])
                            ELSE None
            /\ GradCalls(d) = {}
            /\ Len(comm[d]) <= 1

\* the synchronizer has run on a component no device trained, with a
\* gradient of an earlier step in one buffer and no buffer for another
C2_Witness ==
    /\ AllDone
    /\ NoneReady
    /\ \A d \in Devices : Len(comm[d]) = 1 /\ comm[d][1].what = "ready"
    /\ \E d \in Devices : \E p \in ParamIds : params0[d][p].grad = Some(StaleGrad(d, p))
    /\ \E d \in Devices : \E p \in ParamIds :
          params0[d][p].requires_grad /\ IsNone(params0[d][p].grad)

----------------------------------------------------------------------------
(* C11 *)

RECURSIVE PlacedOn(_, _, _)
\* the tasks of a list placed on device (n, l), in the order of the list
PlacedOn(tasks, n, l) ==
    IF Len(tasks) = 0 THEN <<>>
    ELSE (IF Head(tasks).node_rank = n /\ Head(tasks).local_rank = l
          THEN <<Head(tasks)>> ELSE <<>>) \o PlacedOn(Tail(tasks), n, l)

\* C11: a view made by global_to_local holds the whole task list of the
\* global coordinator and the maps the global coordinator had computed, and
\* making it leaves the global coordinator as it was; get_tasks on a view
\* returns the tasks placed on its device, in registration order, and on the
\* global coordinator all tasks.
C11_ViewKeepsTasksAndMaps ==
    [][ /\ (ret'.op = "global_to_local" /\ ret'.ok) =>
              /\ tqm'["global"] = tqm["global"]
              /\ Val(tqm'["local"]).tasks = Val(tqm["global"]).tasks
              /\ Val(tqm'["local"]).components_to_gpus = Val(tqm["global"]).components_to_gpus
              /\ Val(tqm'["local"]).components_to_groups = Val(tqm["global"]).components_to_groups
        /\ (ret'.op = "get_tasks" /\ ret'.who = "global") =>
              /\ ret'.ok
              /\ ret'.val = Val(tqm["global"]).tasks
        /\ (ret'.op = "get_tasks" /\ ret'.who = "local") =>
              /\ ret'.ok
              /\ ret'.val = PlacedOn(Val(tqm["global"]).tasks,
                                     Val(Val(tqm["local"]).device_context).node_rank,
                                     Val(Val(tqm["local"]).device_context).local_rank)
      ]_<<tqm, ret.op, ret.who>>

\* a view that took over computed maps has returned some but not all tasks
C11_Witness ==
    /\ Distributed
    /\ ret.op = "get_tasks"
    /\ ret.who = "local"
    /\ HasMaps("local")
    /\ Len(ret.val) >= 1
    /\ Len(ret.val) < Len(TheTasks)

----------------------------------------------------------------------------
(* C12 *)

\* the coordinator from_opt has built
Built == ret.op = "from_opt" /\ ret.ok

\* no corpus of the configuration names its device
NoNodeGpu == \A i \in 1..Len(opt.data) : opt.data[i].node_gpu = <<>>

\* C12: with no placement given on a distributed topology, the i-th task
\* (from 0, in registration order) is on the device of global rank
\* i mod (n_nodes * gpus_per_node), node (i mod W) div gpus_per_node and
\* local rank (i mod W) mod gpus_per_node, and there is a placement for
\* every task.
C12_DefaultPlacement ==
    (Built /\ ret.val.context = "MULTI_GPU" /\ NoNodeGpu) =>
        LET tasks == Val(tqm["global"]).tasks
            g == ret.val.gpus_per_node
            W == ret.val.n_nodes * g
        IN /\ Len(tasks) = Len(opt.data)
           /\ \A i \in 1..Len(tasks) :
                 /\ tasks[i].corpus_id = opt.data[i].corpus.corpus_id
                 /\ tasks[i].node_rank = ((i - 1) % W) \div g
                 /\ tasks[i].local_rank = ((i - 1) % W) % g

\* default placement has wrapped around a world of several nodes
C12_Witness ==
    /\ Built
    /\ NoNodeGpu
    /\ ret.val.context = "MULTI_GPU"
    /\ ret.val.n_nodes = 2
    /\ Len(Val(tqm["global"]).tasks) > ret.val.n_nodes * ret.val.gpus_per_node

----------------------------------------------------------------------------
(* C20 *)

\* a side with several layer stacks on which some corpus gives no sharing
\* group, or one that is not as long as the layer stacks
LacksGroups(n_layers, groups) ==
    /\ n_layers > 1
    /\ \E i \in 1..Len(groups) : groups[i] = <<>> \/ Len(groups[i][1]) # n_layers

\* C20: from_opt raises, and no coordinator and no task list is built, when
\* there are several encoder layer stacks and some task has no encoder
\* sharing group or one of another length, and likewise for the decoder.
C20_StacksNeedSharingGroups ==
    (ret.op = "from_opt"
        /\ \/ LacksGroups(opt.enc_layers,
                          [i \in 1..Len(opt.data) |-> opt.data[i].enc_sharing_group])
           \/ LacksGroups(opt.dec_layers,
                          [i \in 1..Len(opt.data) |-> opt.data[i].dec_sharing_group]))
    => (~ret.ok /\ tqm["global"] = <<>>)

\* from_opt has raised on two encoder layer stacks where one task gave a
\* group of two and another a group of one, all else being in order
C20_Witness ==
    /\ ret.op = "from_opt"
    /\ ~ret.ok
    /\ NoNodeGpu
    /\ opt.enc_layers = 2
    /\ opt.dec_layers = 1
    /\ \A i \in 1..Len(opt.data) : opt.data[i].dec_sharing_group = <<>>
    /\ \E i, j \in 1..Len(opt.data) :
          /\ opt.data[i].enc_sharing_group # <<>>
          /\ opt.data[j].enc_sharing_group # <<>>
          /\ Len(opt.data[i].enc_sharing_group[1]) = 2
          /\ Len(opt.data[j].enc_sharing_group[1]) = 1

----------------------------------------------------------------------------
(* C13, C14, C15 *)

\* WorldContext.from_opt has run
WorldTried == ret.op = "WorldContext.from_opt"

\* the world size of the configuration, taken as 0 when it lists no GPU ranks
EffectiveWorldSize == IF Len(opt.gpu_ranks) > 0 THEN opt.world_size ELSE 0

\* C13: for every configuration from_opt accepts, n_nodes * gpus_per_node of
\* the context is the configured world size, and the context is distributed
\* exactly when that product is greater than 1.
C13_WorldSizeConsistent ==
    (WorldTried /\ ret.ok) =>
        /\ ret.val.n_nodes * ret.val.gpus_per_node = EffectiveWorldSize
        /\ (ret.val.context = "MULTI_GPU") <=> (ret.val.n_nodes * ret.val.gpus_per_node > 1)

\* C14: from_opt raises, and returns no context, whenever the world size is
\* positive and is not n_nodes * gpus_per_node, and whenever the mode is CPU
\* and n_nodes is not 1.
C14_RejectsInconsistent ==
    (WorldTried
        /\ \/ (EffectiveWorldSize > 0
                 /\ EffectiveWorldSize # opt.n_nodes * Len(opt.gpu_ranks))
           \/ (EffectiveWorldSize <= 0 /\ opt.n_nodes # 1))
    => (~ret.ok /\ ret.val = <<>>)

\* C15 as stated: the mode is CPU exactly when the configured world_size is
\* at most 0, SINGLE_GPU exactly when it is 1 (with one node), MULTI_GPU
\* exactly when it is greater than 1, and is_gpu() holds exactly when the
\* configured world_size is positive.
C15_ModeOfConfiguredSize ==
    (WorldTried /\ ret.ok) =>
        /\ (ret.val.context = "CPU") <=> (opt.world_size <= 0)
        /\ (ret.val.context = "SINGLE_GPU") <=> (opt.world_size = 1)
        /\ (opt.world_size = 1) => (opt.n_nodes = 1)
        /\ (ret.val.context = "MULTI_GPU") <=> (opt.world_size > 1)
        /\ is_gpu(ret.val) <=> (opt.world_size > 0)

\* C15 as amended: the same of the world size taken as 0 when the
\* configuration lists no GPU ranks.
C15_ModeOfEffectiveSize ==
    (WorldTried /\ ret.ok) =>
        /\ (ret.val.context = "CPU") <=> (EffectiveWorldSize <= 0)
        /\ (ret.val.context = "SINGLE_GPU") <=> (EffectiveWorldSize = 1)
        /\ (EffectiveWorldSize = 1) => (opt.n_nodes = 1)
        /\ (ret.val.context = "MULTI_GPU") <=> (EffectiveWorldSize > 1)
        /\ is_gpu(ret.val) <=> (EffectiveWorldSize > 0)

\* a configuration with a positive world_size and no GPU ranks has been
\* given the CPU mode
C15_Witness ==
    /\ WorldTried
    /\ ret.ok
    /\ opt.world_size > 0
    /\ Len(opt.gpu_ranks) = 0
    /\ ret.val.context = "CPU"

----------------------------------------------------------------------------
(* C16 - C19 *)

\* the tasks placed on the device of the process, in registration order
MyTasks == PlacedOn(TheTasks, opt.node_rank, opt.local_rank)
MyIds == [i \in 1..Len(MyTasks) |-> MyTasks[i].corpus_id]
Sampling(name) == ret.op = "sample_corpus_ids" /\ opt.task_distribution_strategy = name

\* the last n elements of a sequence
LastN(seq, n) == SubSeq(seq, Len(seq) - n + 1, Len(seq))

\* C16: with the round-robin strategy over a non-empty local task list of
\* length m, every call returns as many ids as it was asked for, and the ids
\* returned by the calls so far, concatenated, are a prefix of the endless
\* repetition of the local corpus ids in registration order, whatever the
\* steps, the weights and the curriculum of the tasks.
C16_RoundRobinCycles ==
    (Exists("local") /\ opt.task_distribution_strategy = "roundrobin" /\ Len(MyIds) > 0) =>
        /\ \A i \in 1..Len(sampled) : sampled[i] = MyIds[((i - 1) % Len(MyIds)) + 1]
        /\ ret.op = "sample_corpus_ids" =>
              /\ ret.ok
              /\ Len(ret.val.ids) = ret.val.n_samples
              /\ Len(sampled) >= ret.val.n_samples
              /\ ret.val.ids = LastN(sampled, ret.val.n_samples)

\* the cycle has gone round a list of several tasks, one of them of weight 0
\* and introduced late, in calls of different sizes
C16_Witness ==
    /\ Sampling("roundrobin")
    /\ Len(MyIds) >= 2
    /\ Len(sampled) > Len(MyIds)
    /\ ret.val.n_samples = 1
    /\ Len(sampled) = 3
    /\ \E i \in 1..Len(MyTasks) :
          MyTasks[i].weight = 0 /\ MyTasks[i].introduce_at_training_step > 0

\* C17: weighted sampling at a step returns as many ids as it was asked for,
\* none of them the id of a task introduced after that step.
C17_NotBeforeIntroduced ==
    (Sampling("weighted_sampling") /\ ret.ok) =>
        /\ Len(ret.val.ids) = ret.val.n_samples
        /\ \A k \in 1..Len(ret.val.ids) : \A i \in 1..Len(MyTasks) :
              MyTasks[i].corpus_id = ret.val.ids[k] =>
                 MyTasks[i].introduce_at_training_step <= ret.val.communication_batch_id

\* ids were drawn at step 0 on a device that has a task of positive weight
\* introduced at step 1
C17_Witness ==
    /\ Sampling("weighted_sampling")
    /\ ret.ok
    /\ ret.val.communication_batch_id = 0
    /\ ret.val.n_samples = 2
    /\ \E i \in 1..Len(MyTasks) :
          MyTasks[i].weight > 0 /\ MyTasks[i].introduce_at_training_step = 1

\* some local task has a positive weight and is introduced at step 0
ReadyAtFirstStep ==
    \E i \in 1..Len(MyTasks) :
        MyTasks[i].weight > 0 /\ MyTasks[i].introduce_at_training_step = 0

\* C18: with the weighted_sampling strategy, localizing to a device fails
\* when no task of the device has both a positive weight and step of
\* introduction 0 (so when the device has no task, when all its weights are
\* zero and when all its tasks are introduced after step 0), and succeeds
\* otherwise.
C18_ConstructionNeedsReadyTask ==
    (ret.op = "global_to_local" /\ opt.task_distribution_strategy = "weighted_sampling") =>
        (ret.ok <=> ReadyAtFirstStep)

\* localization failed on a device with a task of positive weight and a task
\* introduced at step 0, but none with both
C18_Witness ==
    /\ ret.op = "global_to_local"
    /\ opt.task_distribution_strategy = "weighted_sampling"
    /\ ~ret.ok
    /\ \E i \in 1..Len(MyTasks) : MyTasks[i].weight > 0
    /\ \E i \in 1..Len(MyTasks) : MyTasks[i].introduce_at_training_step = 0

\* the sum of the weights of the local tasks introduced by a step
EligibleSum(step) ==
    SumSeq([i \in 1..Len(MyTasks) |->
               IF MyTasks[i].introduce_at_training_step <= step
               THEN MyTasks[i].weight ELSE 0])

\* C19: weighted sampling at a step fails, returning no ids, when the weights
\* of the tasks introduced by that step sum to zero.
C19_FailsWithoutEligibleWeight ==
    (Sampling("weighted_sampling") /\ EligibleSum(ret.val.communication_batch_id) = 0) =>
        (~ret.ok /\ ret.val.ids = <<>>)

\* a sample failed for want of eligible weight
C19_Witness ==
    /\ Sampling("weighted_sampling")
    /\ EligibleSum(ret.val.communication_batch_id) = 0
    /\ ~ret.ok

----------------------------------------------------------------------------
(* C21 *)

----------------------------------------------------------------------------
(* C22 *)

\* the batches put on the queue whose permit the consumer has not released
InFlight == Len(feed.queue) + (IF feed.consumer = "release" THEN 1 ELSE 0)

\* C22: with a semaphore of P permits, the batches the producer has put on
\* the queue and whose permit the consumer has not released yet are never
\* more than P, and the producer has acquired a permit of its own for every
\* batch it puts.
C22_Backpressure ==
    /\ InFlight <= feed.permits
    /\ feed.puts - feed.released = InFlight
    /\ feed.puts <= feed.acquired
    /\ feed.producer = "put" => feed.acquired = feed.puts + 1
    /\ feed.semaphore = feed.permits - feed.acquired + feed.released

\* the producer is suspended with every permit taken, after the consumer has
\* released permits before
C22_Witness ==
    /\ feed.permits >= 2
    /\ Len(feed.queue) = feed.permits
    /\ feed.semaphore = 0
    /\ feed.producer = "acquire"
    /\ feed.batch <= MaxBatches
    /\ feed.released >= 1

----------------------------------------------------------------------------
(* C23 *)

\* C23: a worker whose process function raised an exception other than an
\* interrupt has put its rank and trace on the error channel by the time it
\* ends, so that the error handler, which interrupts every registered child
\* and raises once an error is on the channel, comes to know of the fault:
\* no fault of a worker is dropped.
C23_FaultReported ==
    \A w \in WorkerIds :
        workers[w].pc = "raised" => workers[w].reported

----------------------------------------------------------------------------
(* C27 *)

\* the ranks (n, l) lie within the world w
WithinWorld(w, n, l) ==
    /\ 0 <= n /\ n < w.n_nodes
    /\ w.context # "CPU" => (0 <= l /\ l < w.gpus_per_node)

\* C27: the device context of every view that global_to_local returned has
\* the mode, the number of nodes and the number of GPUs per node of the world
\* context, a node rank from 0 below the number of nodes and, unless the mode
\* is CPU, a local rank from 0 below the number of GPUs per node; a call with
\* ranks outside these ranges returns no view.
C27_ViewWithinWorld ==
    /\ Exists("local") =>
          LET dc == Val(Val(tqm["local"]).device_context)
          IN /\ dc.context = TheWorld.context
             /\ dc.n_nodes = TheWorld.n_nodes
             /\ dc.gpus_per_node = TheWorld.gpus_per_node
             /\ Val(tqm["local"]).world_context = TheWorld
             /\ WithinWorld(TheWorld, dc.node_rank, dc.local_rank)
    /\ (ret.op = "global_to_local" /\ ret.ok) =>
          /\ WithinWorld(TheWorld, ret.val[1], ret.val[2])
          /\ Val(Val(tqm["local"]).device_context).node_rank = ret.val[1]
          /\ Val(Val(tqm["local"]).device_context).local_rank = ret.val[2]

\* a call with the round-robin strategy, which is constructed for any device,
\* failed on its ranks, and the view made before is still there
C27_Witness ==
    /\ ret.op = "global_to_local"
    /\ ~ret.ok
    /\ opt.task_distribution_strategy = "roundrobin"
    /\ TheWorld.context = "MULTI_GPU"
    /\ Exists("local")

----------------------------------------------------------------------------
(* C25 *)

\* C25: is_master() returns a boolean on every context it is called on, and
\* on a device context it is true exactly when the world is not distributed
\* or the global rank of the device is 0, so that among the devices of a
\* distributed world only (0, 0) is the master.
C25_MasterIsRankZero ==
    ret.op = "is_master" =>
        /\ ret.ok
        /\ ret.val.result \in {Some(TRUE), Some(FALSE)}
        /\ ret.val.on = "device_context" =>
              LET dc == Val(Val(tqm[ret.who]).device_context)
              IN Val(ret.val.result) <=>
                    (~Distributed \/ (dc.node_rank = 0 /\ dc.local_rank = 0))

\* the part of C25 about device contexts alone
C25_OnDeviceContexts ==
    (ret.op = "is_master" /\ ret.val.on = "device_context") =>
        /\ ret.ok
        /\ LET dc == Val(Val(tqm[ret.who]).device_context)
           IN Val(ret.val.result) <=>
                 (~Distributed \/ (dc.node_rank = 0 /\ dc.local_rank = 0))

----------------------------------------------------------------------------
(* C24 *)

\* the last operation asked the view of a distributed world for its components
GroupedOnView == ret.op = "get_grouped_components" /\ ret.who = "local" /\ Distributed

\* the component keys the tasks of the view's device refer to, and those of
\* them that another device refers to as well
ViewKeys ==
    LET dc == Val(Val(tqm["local"]).device_context)
    IN AllKeys(PlacedOn(TheTasks, dc.node_rank, dc.local_rank))
ViewSharedKeys == ViewKeys \cap SharedKeys(TheTasks, TheWorld)

\* the component ids of a set of keys under type t
IdsOf(keys, t) == {Tail(k) : k \in {x \in keys : Head(x) = t}}

\* the keys of the dict returned under type t
GroupedKeys(t) == {Val(ret.val)[t][i].key : i \in 1..Len(Val(ret.val)[t])}

AllTypes == {ComponentTypes[k] : k \in 1..Len(ComponentTypes)}

\* what C24 says of the dicts apart from the comparison with the groups: an
\* error without maps, and else under every type one handle for each
\* component id the device's tasks refer to and for nothing else
GroupedAreMine ==
    /\ ret.ok <=> HasMaps("local")
    /\ ret.ok =>
          /\ DOMAIN Val(ret.val) = AllTypes
          /\ \A t \in AllTypes :
                /\ {k.elems : k \in GroupedKeys(t)} = IdsOf(ViewKeys, t)
                /\ Cardinality(GroupedKeys(t)) = Len(Val(ret.val)[t])

\* C24 as claimed: get_grouped_components on a view of a distributed world
\* raises without maps and else returns, for every component type, a handle
\* for exactly the component ids the tasks of the device refer to, those on
\* this device alone included, so that its keys under every type include the
\* keys get_distributed_groups returns for the device (the ids of the
\* device's components that another device holds too, as tuples).
C24_GroupedKeysCoverGroupKeys ==
    GroupedOnView =>
        /\ GroupedAreMine
        /\ ret.ok =>
              \A t \in AllTypes :
                  {PyTuple(id) : id \in IdsOf(ViewSharedKeys, t)} \subseteq GroupedKeys(t)

\* C24 as amended: the same, with the keys compared as the code makes them:
\* tuples under the encoder, decoder and adapter types, and under src_emb and
\* tgt_emb the bare language code, where get_distributed_groups has the
\* 1-tuple of that code.
C24_GroupedCoverGroupsUpToShape ==
    GroupedOnView =>
        /\ GroupedAreMine
        /\ ret.ok =>
              \A t \in AllTypes :
                  /\ IdsOf(ViewSharedKeys, t) \subseteq {k.elems : k \in GroupedKeys(t)}
                  /\ \A k \in GroupedKeys(t) : k.tuple <=> t \notin {"src_emb", "tgt_emb"}

\* a view returned components of which one is held by its device alone and
\* one embedding is shared with another device
C24_Witness ==
    /\ GroupedOnView
    /\ ret.ok
    /\ ViewKeys \ ViewSharedKeys # {}
    /\ IdsOf(ViewSharedKeys, "src_emb") # {}
    /\ IdsOf(ViewSharedKeys, "encoder") # {}

----------------------------------------------------------------------------
(* C26 *)

\* C26: on a view of a device that has a task, every sample_corpus_ids call
\* returns as many ids as the accumulation count, each of them the corpus id
\* of a task placed on the device of the view.
C26_BatchOfLocalCorpora ==
    (ret.op = "sample_corpus_ids" /\ Len(MyTasks) >= 1) =>
        /\ ret.ok
        /\ Len(ret.val.ids) = opt.accum_count
        /\ \A k \in 1..Len(ret.val.ids) :
              /\ \E i \in 1..Len(MyTasks) : MyTasks[i].corpus_id = ret.val.ids[k]
              /\ \A i \in 1..Len(TheTasks) :
                    TheTasks[i].corpus_id = ret.val.ids[k] =>
                       /\ TheTasks[i].node_rank = opt.node_rank
                       /\ TheTasks[i].local_rank = opt.local_rank

\* a batch of two ids was sampled on a device that has a task while the other
\* device has tasks too
C26_Witness ==
    /\ ret.op = "sample_corpus_ids"
    /\ ret.ok
    /\ Len(ret.val.ids) = 2
    /\ Len(MyTasks) >= 1
    /\ Len(TheTasks) > Len(MyTasks)
    /\ opt.task_distribution_strategy = "weighted_sampling"

----------------------------------------------------------------------------
(* C28 *)

\* the operations that read a coordinator which has its maps
ReadingOps ==
    {"global_to_local", "get_tasks", "get_distributed_groups", "get_grouped_components",
     "sample_corpus_ids", "get_encoders", "get_decoders"}

\* the component maps and the task list of coordinator c
MapsAndTasks(c) ==
    <<Val(tqm[c]).components_to_gpus, Val(tqm[c]).components_to_groups, Val(tqm[c]).tasks>>

\* C28: once a coordinator has its component maps, localizing it and calling
\* get_tasks, get_distributed_groups, get_grouped_components,
\* sample_corpus_ids, get_encoders or get_decoders, in any order, leave its
\* component-to-devices map, its component-to-groups map and its task list
\* as they are; the view global_to_local returns holds the same maps and
\* tasks as the global coordinator.
C28_MapsAreReadOnly ==
    [][ret'.op \in ReadingOps =>
          /\ HasMaps("global") =>
                /\ MapsAndTasks("global")' = MapsAndTasks("global")
                /\ (ret'.op = "global_to_local" /\ ret'.ok) =>
                      MapsAndTasks("local")' = MapsAndTasks("global")
          /\ (HasMaps("local") /\ ret'.op # "global_to_local") =>
                MapsAndTasks("local")' = MapsAndTasks("local")
      ]_<<tqm, ret.op, ret.who>>

\* a view that has built maps of its own has been asked for its groups again
C28_Witness ==
    /\ ret.op = "get_distributed_groups"
    /\ ret.who = "local"
    /\ ret.ok
    /\ ~ret.built
    /\ HasMaps("local")
    /\ HasMaps("global")
    /\ \E t \in DOMAIN ret.val : Len(ret.val[t]) >= 1
    /\ nbuilds = 2

----------------------------------------------------------------------------
(* C29 *)

\* the parameters that require a gradient and that no device was ready for
CountZero == {p \in ParamIds : params0[1][p].requires_grad /\ ReadySet(p) = {}}

\* the parameters that require a gradient and that some device was ready for
CountPositive == {p \in ParamIds : params0[1][p].requires_grad /\ ReadySet(p) # {}}

RECURSIVE NumelOf(_)
\* the elements of the gradients of the parameters of P together
NumelOf(P) ==
    IF P = {} THEN 0
    ELSE LET p == CHOOSE x \in P : TRUE
         IN NamedParameters[p].numel + NumelOf(P \ {p})

RECURSIVE Carried(_, _)
\* the elements device d has sent in its first n all_reduce calls of gradients
Carried(d, n) ==
    IF n = 0 THEN 0
    ELSE (IF comm[d][n].what = "grads" THEN comm[d][n].numel ELSE 0) + Carried(d, n - 1)

\* C29: when the synchronizer has run on a component of which some
\* parameters had a device ready for them and others had none, then on every
\* device each parameter nobody was ready for has the gradient buffer and
\* the has_grad flag it had before the call, and the gradient all-reduces
\* carried the gradients of the other parameters only
C29_CountZeroSkipped ==
    (AllDone /\ CountZero # {} /\ CountPositive # {}) =>
        \A d \in Devices :
            /\ \A p \in CountZero :
                  /\ params[d][p].grad = params0[d][p].grad
                  /\ params[d][p].has_grad = params0[d][p].has_grad
            /\ Carried(d, Len(comm[d])) = NumelOf(CountPositive)

\* the part of C29 the code keeps: an existing gradient buffer of a
\* parameter nobody was ready for is not changed and is not sent
C29_BuffersOfCountZeroKept ==
    (AllDone /\ CountZero # {} /\ CountPositive # {}) =>
        \A d \in Devices :
            /\ \A p \in CountZero :
                  ~IsNone(params0[d][p].grad) => params[d][p].grad = params0[d][p].grad
            /\ Carried(d, Len(comm[d])) = NumelOf(CountPositive)

----------------------------------------------------------------------------
(* C30 *)

\* sequence s starts sequence t
IsPrefix(s, t) == Len(s) <= Len(t) /\ SubSeq(t, 1, Len(s)) = s

\* the parameters device d was ready for when the synchronizer was called
ReadyOn(d) == {p \in ParamIds : params0[d][p].has_grad}

\* C30: the devices of a group that run the synchronizer on the same
\* parameter list issue the same all_reduce calls: at every moment the calls
\* of one device (what is reduced and how many elements) are a prefix of the
\* calls of the other, whatever the parameters each device was ready for;
\* no device has returned while another waits in an all_reduce, until all
\* have returned some step can be taken, and at the end every device has
\* made the same calls
C30_SameCollectives ==
    /\ \A d, e \in Devices : IsPrefix(comm[d], comm[e]) \/ IsPrefix(comm[e], comm[d])
    /\ \A d, e \in Devices : ~(pc[e] = "done" /\ ~IsNone(posted[d]))
    /\ ~AllDone => ENABLED NextSync
    /\ AllDone => \A d, e \in Devices : comm[d] = comm[e]

\* the synchronizer has run on devices with different readiness bits, one of
\* them ready for nothing, and gradients were reduced
C30_Witness ==
    /\ AllDone
    /\ \E d, e \in Devices :
          /\ ReadyOn(d) = {}
          /\ ReadyOn(e) # {}
          /\ ReadyOn(e) # ParamIds
          /\ GradCalls(d) # {}
          /\ Len(comm[d]) = 2

----------------------------------------------------------------------------
(* C31 *)

RECURSIVE SumOfTensor(_, _, _)
\* element e of the i-th tensor summed over the devices of D, as the tensors
\* were before the call
SumOfTensor(D, i, e) ==
    IF D = {} THEN 0
    ELSE LET d == CHOOSE x \in D : TRUE
         IN params0[d][i][e] + SumOfTensor(D \ {d}, i, e)

\* the all_reduce calls of device d that carry the i-th tensor
CallsWith(d, i) ==
    {c \in 1..Len(comm[d]) : \E k \in 1..Len(comm[d][c].idx) : comm[d][c].idx[k] = i}

\* C31: when every device of the group has run
\* all_reduce_and_rescale_tensors on a non-empty list of tensors, each tensor
\* holds, element by element and in its own shape, the sum of that tensor
\* over the devices divided by rescale_denom; each tensor went into exactly
\* one all_reduce; a tensor is reduced on its own exactly when it is larger
\* than buffer_size, and no buffer that is flushed holds more than
\* buffer_size bytes
C31_ChunkedIsPerTensor ==
    AllDone =>
        \A d \in Devices :
            /\ Len(params[d]) = Len(params0[d])
            /\ \A i \in 1..Len(params0[d]) :
                  /\ Len(params[d][i]) = Len(params0[d][i])
                  /\ \A e \in 1..Len(params0[d][i]) :
                        params[d][i][e] = SumOfTensor(Devices, i, e) \div opt.rescale_denom
                  /\ Cardinality(CallsWith(d, i)) = 1
                  /\ \A c \in CallsWith(d, i) :
                        (comm[d][c].what = "tensor") <=> (4 * Len(params0[d][i]) > opt.buffer_size)
            /\ \A c \in 1..Len(comm[d]) :
                  comm[d][c].what = "buffer" => 4 * comm[d][c].numel <= opt.buffer_size

\* a list of three tensors was reduced with a buffer of two elements: a
\* flush because the buffer would overflow, then the flush at the end
C31_Witness ==
    /\ AllDone
    /\ Len(params0[1]) >= 3
    /\ opt.buffer_size = 8
    /\ opt.rescale_denom = 2
    /\ Len(comm[1]) >= 2
    /\ \E c \in 1..Len(comm[1]) : Len(comm[1][c].idx) = 2

----------------------------------------------------------------------------
(* C32 *)

\* the place of a key in a component-device map
PlaceIn(od, key) == CHOOSE i \in 1..Len(od) : od[i].key = key

\* C32: the groups get_distributed_groups returns to a view are, under every
\* component type, in an order that does not depend on the device of the
\* view: the order in which the traversal of the task list (devices by
\* ascending rank, tasks in registration order, the references of a task)
\* first meets their components, which is the order of the component-device
\* map.  Two views therefore list the components they share in the same
\* relative order.
C32_SameOrderOnEveryDevice ==
    (ret.op = "get_distributed_groups" /\ ret.who = "local" /\ ret.ok /\ Distributed) =>
        LET gpus == Val(Val(tqm["local"]).components_to_gpus)
        IN \A t \in DOMAIN ret.val :
              \A i, j \in 1..Len(ret.val[t]) :
                  i < j =>
                     /\ MetBefore(<<t>> \o ret.val[t][i].key, <<t>> \o ret.val[t][j].key,
                                  TheTasks, TheWorld)
                     /\ PlaceIn(gpus, <<t>> \o ret.val[t][i].key)
                           < PlaceIn(gpus, <<t>> \o ret.val[t][j].key)
                     /\ HasMaps("global") =>
                           PlaceIn(Val(Val(tqm["global"]).components_to_gpus),
                                   <<t>> \o ret.val[t][i].key)
                             < PlaceIn(Val(Val(tqm["global"]).components_to_gpus),
                                       <<t>> \o ret.val[t][j].key)

\* a view on a device other than rank 0 is returned two groups of one type
\* and is not returned a group of another type that the group map holds
C32_Witness ==
    /\ ret.op = "get_distributed_groups"
    /\ ret.who = "local"
    /\ ret.ok
    /\ Distributed
    /\ Val(global_rank(Val(tqm["local"]))) > 0
    /\ \E t \in DOMAIN ret.val : Len(ret.val[t]) >= 2
    /\ \E t \in DOMAIN ret.val :
          Len(Val(Val(tqm["local"]).components_to_groups)[t]) > Len(ret.val[t])

----------------------------------------------------------------------------
(* C33 *)

\* a weighted strategy has returned corpus ids to the view
Drawn == ret.op = "sample_corpus_ids" /\ ret.ok /\ opt.task_distribution_strategy = "weighted_sampling"

\* task i of the device is introduced by step s
IntroducedBy(i, s) == MyTasks[i].introduce_at_training_step <= s

RECURSIVE WeightIntroducedBy(_, _)
\* the weights of the first i tasks of the device that are introduced by step s
WeightIntroducedBy(i, s) ==
    IF i = 0 THEN 0
    ELSE (IF IntroducedBy(i, s) THEN MyTasks[i].weight ELSE 0) + WeightIntroducedBy(i - 1, s)

RECURSIVE NumSum(_, _)
\* the sum of the numerators of the first i fractions of p
NumSum(p, i) == IF i = 0 THEN 0 ELSE p[i].num + NumSum(p, i - 1)

\* C33: the distribution a weighted strategy draws from at step s has one
\* probability per task of the device: 0 for a task introduced after s, and
\* weight / (sum of the weights of the tasks introduced by s) for the others;
\* the probabilities sum to 1; two tasks of weights 2 and 1, both introduced
\* at step 0, have 2/3 and 1/3 at every step; and each of the n ids drawn is a
\* task of positive probability under this distribution
C33_CategoricalDistribution ==
    Drawn =>
        LET s == ret.val.communication_batch_id
            p == ret.val.p
            total == WeightIntroducedBy(Len(MyTasks), s)
        IN /\ Len(p) = Len(MyTasks)
           /\ total > 0
           /\ \A i \in 1..Len(p) :
                 /\ p[i].den > 0
                 /\ ~IntroducedBy(i, s) => p[i].num = 0
                 /\ IntroducedBy(i, s) => p[i].num * total = MyTasks[i].weight * p[i].den
           /\ \A i, j \in 1..Len(p) : p[i].den = p[j].den
           /\ NumSum(p, Len(p)) = p[1].den
           /\ (/\ Len(MyTasks) = 2
               /\ MyTasks[1].weight = 2 /\ MyTasks[2].weight = 1
               /\ MyTasks[1].introduce_at_training_step = 0
               /\ MyTasks[2].introduce_at_training_step = 0) =>
                 /\ 3 * p[1].num = 2 * p[1].den
                 /\ 3 * p[2].num = 1 * p[2].den
           /\ Len(ret.val.ids) = ret.val.n_samples
           /\ \A k \in 1..Len(ret.val.ids) :
                 \E i \in 1..Len(p) : MyIds[i] = ret.val.ids[k] /\ p[i].num > 0

\* two ids were drawn at step 1 on a device with tasks of weights 2 and 1
\* introduced at step 0, and the same task was drawn twice
C33_Witness ==
    /\ Drawn
    /\ Len(MyTasks) = 2
    /\ MyTasks[1].weight = 2 /\ MyTasks[2].weight = 1
    /\ MyTasks[1].introduce_at_training_step = 0
    /\ MyTasks[2].introduce_at_training_step = 0
    /\ ret.val.communication_batch_id = 1
    /\ ret.val.n_samples = 2
    /\ ret.val.ids[1] = ret.val.ids[2]
    /\ ret.val.ids[1] = MyIds[2]

\* a task that is not introduced yet has probability 0 and another is drawn
C33_WitnessCurriculum ==
    /\ Drawn
    /\ Len(MyTasks) = 2
    /\ MyTasks[2].introduce_at_training_step = 1
    /\ MyTasks[2].weight = 2
    /\ ret.val.communication_batch_id = 0
    /\ ret.val.p[2].num = 0

----------------------------------------------------------------------------
(* C34 *)

\* the producer is suspended in semaphore.acquire() with batch b pending
SuspendedWith(b) == feed.producer = "acquire" /\ feed.semaphore = 0 /\ feed.batch = b

\* the queue holds the batches last put, in the order the generator yielded them
InYieldOrder ==
    \A i \in 1..Len(feed.queue) : feed.queue[i] = feed.puts - Len(feed.queue) + i

\* C34: with the producer and the consumer scheduled fairly and the consumer
\* releasing one permit for every batch it takes, a producer suspended in
\* semaphore.acquire() with a batch pending gets to put that batch on the
\* queue, every batch the generator yields is eventually put, and the
\* batches are on the queue in the order the generator yielded them
C34_ProducerProgress ==
    /\ \A b \in 1..MaxBatches : SuspendedWith(b) ~> (feed.puts >= b)
    /\ <>(feed.puts = MaxBatches)
    /\ []InYieldOrder

\* every batch has been put through a semaphore of one permit: the producer
\* was suspended before each batch but the first
C34_Witness ==
    /\ feed.permits = 1
    /\ feed.puts = MaxBatches
    /\ feed.released >= MaxBatches - 1

----------------------------------------------------------------------------
(* C35 *)

\* the signal handler has raised in the process that started the workers
HandlerRaised == ~IsNone(error_handler.raised)

\* the worker whose report was the first put on the error queue
FirstReporter == CHOOSE w \in WorkerIds : workers[w].report_no = 1

\* C35: the exception the signal handler raises carries the trace of the
\* first (rank, trace) pair that was put on the error queue, also when a
\* second worker has reported before the handler runs; and the handler,
\* signalled by the listener, finds a pair on the queue
C35_RaisesOriginalFault ==
    /\ HandlerRaised => Val(error_handler.raised) = Trace(FirstReporter)
    /\ (error_handler.sigusr1 /\ ~HandlerRaised) => Len(error_queue) > 0

\* the part of C35 the code keeps: the handler raises the trace of some
\* worker that reported, and never waits on an empty queue
C35_RaisesSomeFault ==
    /\ HandlerRaised =>
          \E w \in WorkerIds : workers[w].reported /\ Val(error_handler.raised) = Trace(w)
    /\ (error_handler.sigusr1 /\ ~HandlerRaised) => Len(error_queue) > 0

----------------------------------------------------------------------------
(* C36 *)

\* the ranks of the devices the component-device map od lists for the key
RanksOf(od, key) == IF HasKey(od, key) THEN Lookup(od, key) ELSE {}

\* C36: on a view bound to device (n, l) of a GPU world with g devices per
\* node, the global rank read from the coordinator and the one read from its
\* device context are both n * g + l; it lies in 0 .. world_size - 1 and
\* gives back n and l (so no two devices share it, and the world_size devices
\* take all the values); and the component-device map built on the view
\* lists this same rank for exactly the components the tasks placed on
\* (n, l) refer to
C36_GlobalRankIsUniqueIndex ==
    (ret.op = "global_rank" /\ ret.who = "local" /\ is_gpu(TheWorld)) =>
        LET view == Val(tqm["local"])
            n == Val(view.device_context).node_rank
            l == Val(view.device_context).local_rank
            g == TheWorld.gpus_per_node
            mine == PlacedOn(TheTasks, n, l)
        IN /\ ret.ok
           /\ ret.val.coordinator = Some(n * g + l)
           /\ ret.val.device_context = ret.val.coordinator
           /\ Val(ret.val.coordinator) \in 0 .. (TheWorld.n_nodes * g - 1)
           /\ Val(ret.val.coordinator) \div g = n
           /\ Val(ret.val.coordinator) % g = l
           /\ (HasMaps("local") /\ Distributed) =>
                 \A key \in AllKeys(TheTasks) :
                     (Val(ret.val.coordinator)
                          \in RanksOf(Val(view.components_to_gpus), key))
                     <=> (\E i \in 1..Len(mine) : key \in RefersTo(mine[i]))

\* the last device of two nodes with two GPUs each reads global rank 3 after
\* the maps were built with a task placed on it
C36_Witness ==
    /\ ret.op = "global_rank"
    /\ ret.who = "local"
    /\ ret.ok
    /\ TheWorld.n_nodes = 2
    /\ TheWorld.gpus_per_node = 2
    /\ ret.val.coordinator = Some(3)
    /\ HasMaps("local")
    /\ Len(PlacedOn(TheTasks, 1, 1)) >= 1

----------------------------------------------------------------------------
(* C37 *)

\* the language of a task on a side
LangOf(task, side) == IF side = "src" THEN task.src_lang ELSE task.tgt_lang

\* the tasks of the device of the view, in registration order
ViewTasks ==
    PlacedOn(TheTasks, Val(Val(tqm["local"]).device_context).node_rank,
             Val(Val(tqm["local"]).device_context).local_rank)

\* result lists, for the given side, each language of the tasks of the view
\* once, at its first occurrence, as (side, lang, None, dict[(side, lang)])
ListsLanguagesOnce(result, side) ==
    LET First(i) == \A j \in 1..(i - 1) : LangOf(ViewTasks[j], side) # LangOf(ViewTasks[i], side)
        firsts == SelectSeq([i \in 1..Len(ViewTasks) |-> i], First)
    IN /\ Len(result) = Len(firsts)
       /\ \A k \in 1..Len(firsts) :
             result[k] = <<side, LangOf(ViewTasks[firsts[k]], side), None,
                           <<"of", side, LangOf(ViewTasks[firsts[k]], side)>> >>

\* C37: get_fields(side, fields) on a view returns one tuple
\* (side, lang, None, fields[(side, lang)]) per language of that side of the
\* tasks of the view's device, in registration order, each language once at
\* its first occurrence
C37_FieldsListLanguagesOnce ==
    (ret.op = "get_fields" /\ ret.who = "local") =>
        /\ ret.ok
        /\ ListsLanguagesOnce(Val(ret.val.result), ret.val.side)

\* what holds of get_vocabs, which has the loop the claim describes
C37_VocabsListLanguagesOnce ==
    (ret.op = "get_vocabs" /\ ret.who = "local") =>
        /\ ret.ok
        /\ ListsLanguagesOnce(Val(ret.val.result), ret.val.side)

----------------------------------------------------------------------------
(* C38 *)

\* the task is placed on a device of the world
OnDeviceOfWorld(task, w) ==
    /\ task.node_rank \in 0 .. (w.n_nodes - 1)
    /\ task.local_rank \in 0 .. (w.gpus_per_node - 1)

\* every rank listed for a key in the component-device map is the global
\* rank of a task of the registry that refers to the key
EveryListedRankHasTask(m) ==
    \A k \in 1..Len(m) : \A r \in m[k].val :
        \E i \in 1..Len(TheTasks) :
            /\ TaskRank(TheTasks[i], TheWorld) = r
            /\ m[k].key \in RefersTo(TheTasks[i])

\* C38: once the component maps are built on a distributed topology, for
\* every task of the registry and every component key the task refers to,
\* the global rank of the task is in the device set of the key; and every
\* rank in the device set of a key is the global rank of some task that
\* refers to the key
C38_DeviceMapComplete ==
    (HasMaps("global") /\ Distributed) =>
        LET m == Val(Val(tqm["global"]).components_to_gpus)
        IN /\ \A i \in 1..Len(TheTasks) : \A key \in RefersTo(TheTasks[i]) :
                  TaskRank(TheTasks[i], TheWorld) \in RanksOf(m, key)
           /\ EveryListedRankHasTask(m)

\* the same for the tasks placed on a device of the world: their ranks are
\* in the device sets of their keys, and every listed rank has its task
C38_CompleteForDevicesOfWorld ==
    (HasMaps("global") /\ Distributed) =>
        LET m == Val(Val(tqm["global"]).components_to_gpus)
        IN /\ \A i \in 1..Len(TheTasks) :
                  OnDeviceOfWorld(TheTasks[i], TheWorld) =>
                      \A key \in RefersTo(TheTasks[i]) :
                          TaskRank(TheTasks[i], TheWorld) \in RanksOf(m, key)
           /\ EveryListedRankHasTask(m)

\* maps built on two nodes of one GPU each, with tasks on both devices and
\* a key listed for both
C38_BuiltOnTwoDevices ==
    /\ HasMaps("global")
    /\ Distributed
    /\ TheWorld.n_nodes = 2
    /\ \E key \in AllKeys(TheTasks) :
          RanksOf(Val(Val(tqm["global"]).components_to_gpus), key) = {0, 1}

----------------------------------------------------------------------------
(* C39 *)

\* the step is a call of get_distributed_groups on the view
GroupsAskedOfView == ret'.op = "get_distributed_groups" /\ ret'.who = "local"

\* the items of the group map of coordinator c, under type t, of the
\* components whose device set in the map of c contains rank r
MineIn(c, t, r) ==
    {item \in ItemsOf(Val(Val(tqm[c]).components_to_groups), t) :
        r \in RanksOf(Val(Val(tqm[c]).components_to_gpus), <<t>> \o item.key)}

\* C39: get_distributed_groups on a view invokes the group factory only when
\* it finds the maps of the view missing. A call on a view that has its maps
\* makes no call of the factory, leaves the factory, the maps and the view
\* as they are and returns; what a call returns is read off the maps of the
\* view alone, the calls on the global coordinator leave the view alone, and
\* a call that follows another one on the view returns an equal result.
C39_RepeatedCallsCreateNoGroups ==
    [][/\ (GroupsAskedOfView /\ HasMaps("local")) =>
             /\ ret'.calls = <<>>
             /\ ~ret'.built
             /\ new_group_func' = new_group_func
             /\ calls' = calls
             /\ tqm' = tqm
             /\ ret'.ok
       /\ (GroupsAskedOfView /\ ~HasMaps("local")) =>
             /\ ret'.built
             /\ calls' = calls \o ret'.calls
             /\ new_group_func'.group_idx = new_group_func.group_idx + Len(ret'.calls)
       /\ (GroupsAskedOfView /\ ret'.ok) =>
             \A t \in DOMAIN ret'.val :
                 ItemsOf(ret'.val, t) = MineIn("local", t, Val(global_rank(Val(tqm["local"]))))'
       /\ (Exists("local") /\ ret'.who = "global" /\ ret'.op # "global_to_local") =>
             tqm'["local"] = tqm["local"]
       /\ (GroupsAskedOfView /\ ret.op = "get_distributed_groups" /\ ret.who = "local"
              /\ ret.ok) =>
             ret'.val = ret.val
      ]_<<tqm, ret.op, ret.who, ret.built, ret.calls, new_group_func, calls, nbuilds>>

\* a view without maps from the global coordinator built its own in the
\* first call, which made the calls of the factory, and has been asked for
\* its groups again
C39_Witness ==
    /\ ret.op = "get_distributed_groups"
    /\ ret.who = "local"
    /\ ret.ok
    /\ ~ret.built
    /\ ret.calls = <<>>
    /\ ~HasMaps("global")
    /\ HasMaps("local")
    /\ nbuilds = 1
    /\ Len(calls) >= 2
    /\ \E t \in DOMAIN ret.val : Len(ret.val[t]) >= 2

----------------------------------------------------------------------------
(* C40 *)

\* C40: a weighted-sampling strategy that was constructed from weights none
\* of which is negative returns from every call of sample_corpus_ids at a
\* step of 0 or more, with as many ids as were asked for, whatever calls came
\* before: the weights of the tasks introduced by step 0 sum to more than
\* zero, and the sum at a later step is no smaller.
C40_SamplingNeverFails ==
    (/\ Sampling("weighted_sampling")
     /\ \A i \in 1..Len(MyTasks) : MyTasks[i].weight >= 0
     /\ ret.val.communication_batch_id >= 0) =>
        /\ ret.ok
        /\ Len(ret.val.ids) = ret.val.n_samples
        /\ EligibleSum(0) > 0
        /\ \A s \in 0..ret.val.communication_batch_id :
              EligibleSum(s) <= EligibleSum(ret.val.communication_batch_id)

\* a sample at step 1 on a device with a task of weight zero introduced at
\* step 0 and a task introduced at step 1 that adds to the eligible weight
C40_Witness ==
    /\ Sampling("weighted_sampling")
    /\ ret.ok
    /\ ret.val.communication_batch_id = 1
    /\ EligibleSum(1) > EligibleSum(0)
    /\ \E i \in 1..Len(MyTasks) :
          MyTasks[i].weight = 0 /\ MyTasks[i].introduce_at_training_step = 0

====
